---- MODULE Spec2Model ----
(***************************************************************************)
(* Duplicate detection engine of the job-listing analytics                 *)
(* (analytics/scripts/duplicate_detector.py): the match consolidator       *)
(* DuplicateDetector._consolidate_duplicates, the duplicate resolver       *)
(* DuplicateDetector.remove_duplicates, the record normalizer              *)
(* (_clean_text, _normalize_text, _normalize_company_name) and the whole   *)
(* of DuplicateDetector.detect_duplicates with its four strategies.        *)
(*                                                                         *)
(* Encoding.  A record id is the string of a small number ("1", "2", ...); *)
(* it is written as that number, so that Python's sorted() on two ids is   *)
(* the order of the numbers.  A score or a confidence is a whole number of *)
(* parts of Unit (1.0 is Unit, 0.6 is 60 * Hundredth), fine enough for the *)
(* weighted scores of texts of up to 4 characters to be exact.  A          *)
(* DuplicateMatch carries the fields the consolidator and the resolver     *)
(* read (job1_id, job2_id, confidence) and match_type, which tells the     *)
(* entries of different strategies apart.                                  *)
(***************************************************************************)
EXTENDS Integers, Sequences, FiniteSets, TLC

VARIABLES
    config,          \* self.config of the DuplicateDetector
    results,         \* argument of _consolidate_duplicates: the raw match lists
    all_duplicates,  \* list built and returned by _consolidate_duplicates
    jobs_data,       \* argument of remove_duplicates: the record list
    duplicates,      \* argument of remove_duplicates: the match list
    strategy,        \* argument of remove_duplicates: the policy name
    jobs_to_remove,  \* local set of remove_duplicates
    cleaned_jobs,    \* list returned by remove_duplicates
    outcome,         \* how the last call ended: "none", "returned", or the exception
    pc,              \* "detect" / "load" / "text" / "batch": inputs being built; "done": call ended
    text,            \* a raw text field handed to the record normalizer
    forms,           \* what the normalizer made of it
    summary,         \* results['summary'] of detect_duplicates
    vectorizer,      \* self.vectorizer: the vocabulary of its last fit
    workflow         \* self.config of the AnalyticsWorkflow: a WorkflowConfig

vars == <<config, results, all_duplicates, jobs_data, duplicates, strategy,
          jobs_to_remove, cleaned_jobs, outcome, pc, text, forms, summary,
          vectorizer, workflow>>

\* the normalizer has not been given a text, no summary has been made
NoForms == [title |-> << >>, title_again |-> << >>,
            company |-> << >>, company_again |-> << >>]
NoSummary == [total_jobs |-> 0, duplicate_pairs |-> 0, unique_jobs_affected |-> 0,
              duplicate_rate |-> 0, estimated_unique_jobs |-> 0]
NormalizerIdle == text = << >> /\ forms = NoForms
NormalizerUntouched == UNCHANGED <<text, forms>>

----------------------------------------------------------------------------
(* Bounds of the model *)

\* total number of raw matches handed to the consolidator
MaxRaw == 3
\* number of records of a batch handed to the resolver
MaxJobs == 2
\* number of matches handed to the resolver
MaxMatches == 2

\* the record ids that matches refer to
JobIds == {1, 2, 3}

----------------------------------------------------------------------------
(* Configuration *)

\* the score 1.0: a multiple of 100, of every weight total (70, 80, 85, 95,
\* 100) times every ratio denominator (1 to 8), and of 10 times that for the
\* cross-source factor 0.9
Unit == 759696000
Hundredth == Unit \div 100

\* 'min_confidence': 0.6
DefaultMinConfidence == 60 * Hundredth

\* 'weights', in hundredths
DefaultWeights ==
    [title |-> 40, company |-> 30, location |-> 15, description |-> 10, salary |-> 5]

_default_config ==
    [min_confidence |-> DefaultMinConfidence,
     high_similarity |-> 90 * Hundredth,
     medium_similarity |-> 70 * Hundredth,
     fuzzy_threshold |-> 80 * Hundredth,
     weights |-> DefaultWeights,
     enable_advanced_matching |-> TRUE]

\* TfidfVectorizer(...) as constructed: no vocabulary yet
NoVocabulary == {}

\* WorkflowConfig(): the fields that bear on duplicates
WorkflowConfig ==
    [remove_duplicates |-> TRUE,
     duplicate_strategy |-> "keep_best_source",
     min_duplicate_confidence |-> 70 * Hundredth]

\* no workflow is running and the vectorizer has not been fitted
WorkflowIdle == workflow = WorkflowConfig
VectorizerUnfitted == vectorizer = NoVocabulary
WorkflowUntouched == UNCHANGED workflow
VectorizerUntouched == UNCHANGED vectorizer

----------------------------------------------------------------------------
(* DuplicateMatch values *)

\* confidence of an exact match: confidence=1.0
ExactConfidence == Unit

Match(a, b, t, c) == [job1_id |-> a, job2_id |-> b, match_type |-> t, confidence |-> c]

\* ordered pairs of distinct ids
IdPairs == {p \in JobIds \X JobIds : p[1] # p[2]}

\* what each strategy can report: exact always 1.0; fuzzy min(score, 0.95)
\* with score >= 0.8; semantic score * 0.8 with score >= 0.7; cross-source
\* score * 0.9 with score >= 0.9
ExactMatches == {Match(p[1], p[2], "exact", ExactConfidence) : p \in IdPairs}
FuzzyMatches == {Match(p[1], p[2], "fuzzy", c) : p \in IdPairs, c \in {80 * Hundredth, 95 * Hundredth}}
SemanticMatches == {Match(p[1], p[2], "semantic", c) : p \in IdPairs, c \in {56 * Hundredth, 80 * Hundredth}}
CrossSourceMatches == {Match(p[1], p[2], "cross_source", 90 * Hundredth) : p \in IdPairs}

----------------------------------------------------------------------------
(* _consolidate_duplicates *)

Min2(a, b) == IF a <= b THEN a ELSE b
Max2(a, b) == IF a <= b THEN b ELSE a

\* a plausible slip: the pair is not sorted, so (A,B) and (B,A) are two keys
pair_key_unsorted(d) == <<d.job1_id, d.job2_id>>

\* pair_key = tuple(sorted([duplicate.job1_id, duplicate.job2_id]))
pair_key(d) == <<Min2(d.job1_id, d.job2_id), Max2(d.job1_id, d.job2_id)>>

\* a plausible slip: the later entry takes over whatever its confidence
SupersedesAlways(duplicate, existing) == TRUE

\* a plausible slip: >= lets a later entry of equal confidence take over
SupersedesOrEqual(duplicate, existing) == duplicate.confidence >= existing.confidence

\* if duplicate.confidence > all_duplicates[existing_idx].confidence
Supersedes(duplicate, existing) == duplicate.confidence > existing.confidence

\* existing_idx = next(i for i, d in enumerate(all_duplicates) if key(d) == pair_key)
existing_idx(list, key) ==
    CHOOSE i \in 1..Len(list) :
        /\ pair_key(list[i]) = key
        /\ \A k \in 1..(i - 1) : pair_key(list[k]) # key

\* body of the inner loop: one raw match against the list built so far
ConsolidateOne(acc, duplicate) ==
    LET key == pair_key(duplicate) IN
    IF key \notin acc.seen_pairs
    THEN [seen_pairs |-> acc.seen_pairs \cup {key},
          list |-> Append(acc.list, duplicate)]
    ELSE LET idx == existing_idx(acc.list, key) IN
         IF Supersedes(duplicate, acc.list[idx])
         THEN [acc EXCEPT !.list[idx] = duplicate]
         ELSE acc

RECURSIVE ConsolidateAll(_, _)
ConsolidateAll(acc, raw) ==
    IF raw = << >> THEN acc
    ELSE ConsolidateAll(ConsolidateOne(acc, Head(raw)), Tail(raw))

\* results.items() in insertion order (detect_duplicates builds the dict as
\* exact, fuzzy, semantic, cross_source; 'summary' is skipped)
RawInOrder(res) ==
    res.exact_duplicates \o res.fuzzy_duplicates
        \o res.semantic_duplicates \o res.cross_source_duplicates

\* insertion into a list sorted by confidence descending, after its equals
RECURSIVE InsertDescending(_, _)
InsertDescending(sorted, d) ==
    IF sorted = << >> THEN <<d>>
    ELSE IF Head(sorted).confidence >= d.confidence
         THEN <<Head(sorted)>> \o InsertDescending(Tail(sorted), d)
         ELSE <<d>> \o sorted

RECURSIVE SortDescending(_, _)
SortDescending(sorted, rest) ==
    IF rest = << >> THEN sorted
    ELSE SortDescending(InsertDescending(sorted, Head(rest)), Tail(rest))

\* a plausible slip: the sort is left out
sort_by_confidence_missing(list) == list

\* all_duplicates.sort(key=lambda x: x.confidence, reverse=True): stable
sort_by_confidence(list) == SortDescending(<< >>, list)

_consolidate_duplicates(res) ==
    sort_by_confidence(
        ConsolidateAll([seen_pairs |-> {}, list |-> << >>], RawInOrder(res)).list)

----------------------------------------------------------------------------
(* detect_duplicates: the four strategies fill the raw match lists in the  *)
(* order exact, fuzzy, semantic, cross_source; the lists are then          *)
(* consolidated.  What a strategy reports is left open here: any match of  *)
(* its type, MaxRaw matches in total.                                      *)

EmptyResults ==
    [exact_duplicates |-> << >>, fuzzy_duplicates |-> << >>,
     semantic_duplicates |-> << >>, cross_source_duplicates |-> << >>]

RawCount(res) == Len(RawInOrder(res))

InitConsolidate ==
    /\ config = _default_config
    /\ results = EmptyResults
    /\ all_duplicates = << >>
    /\ jobs_data = << >>
    /\ duplicates = << >>
    /\ strategy = "keep_first"
    /\ jobs_to_remove = {}
    /\ cleaned_jobs = << >>
    /\ outcome = "none"
    /\ pc = "detect"
    /\ NormalizerIdle
    /\ summary = NoSummary
    /\ VectorizerUnfitted
    /\ WorkflowIdle

ResolverUntouched ==
    /\ UNCHANGED <<config, jobs_data, duplicates, strategy, jobs_to_remove,
                   cleaned_jobs, summary>>
    /\ NormalizerUntouched
    /\ VectorizerUntouched
    /\ WorkflowUntouched

\* _find_exact_duplicates: duplicates.append(DuplicateMatch(..., 'exact', ...))
FindExactAppends(m) ==
    /\ pc = "detect"
    /\ RawCount(results) < MaxRaw
    /\ results.fuzzy_duplicates = << >>
    /\ results.semantic_duplicates = << >>
    /\ results.cross_source_duplicates = << >>
    /\ results' = [results EXCEPT !.exact_duplicates = Append(@, m)]
    /\ UNCHANGED <<all_duplicates, outcome, pc>>
    /\ ResolverUntouched

\* _find_fuzzy_duplicates: duplicates.append(DuplicateMatch(..., 'fuzzy', ...))
FindFuzzyAppends(m) ==
    /\ pc = "detect"
    /\ RawCount(results) < MaxRaw
    /\ results.semantic_duplicates = << >>
    /\ results.cross_source_duplicates = << >>
    /\ results' = [results EXCEPT !.fuzzy_duplicates = Append(@, m)]
    /\ UNCHANGED <<all_duplicates, outcome, pc>>
    /\ ResolverUntouched

\* _find_semantic_duplicates: duplicates.append(DuplicateMatch(..., 'semantic', ...))
FindSemanticAppends(m) ==
    /\ pc = "detect"
    /\ RawCount(results) < MaxRaw
    /\ results.cross_source_duplicates = << >>
    /\ results' = [results EXCEPT !.semantic_duplicates = Append(@, m)]
    /\ UNCHANGED <<all_duplicates, outcome, pc>>
    /\ ResolverUntouched

\* _find_cross_source_duplicates: duplicates.append(DuplicateMatch(..., 'cross_source', ...))
FindCrossSourceAppends(m) ==
    /\ pc = "detect"
    /\ RawCount(results) < MaxRaw
    /\ results' = [results EXCEPT !.cross_source_duplicates = Append(@, m)]
    /\ UNCHANGED <<all_duplicates, outcome, pc>>
    /\ ResolverUntouched

\* all_duplicates = self._consolidate_duplicates(results)
ConsolidateDuplicates ==
    /\ pc = "detect"
    /\ all_duplicates' = _consolidate_duplicates(results)
    /\ outcome' = "returned"
    /\ pc' = "done"
    /\ UNCHANGED results
    /\ ResolverUntouched

NextConsolidate ==
    \/ \E m \in ExactMatches : FindExactAppends(m)
    \/ \E m \in FuzzyMatches : FindFuzzyAppends(m)
    \/ \E m \in SemanticMatches : FindSemanticAppends(m)
    \/ \E m \in CrossSourceMatches : FindCrossSourceAppends(m)
    \/ ConsolidateDuplicates

SpecConsolidate == InitConsolidate /\ [][NextConsolidate]_vars

----------------------------------------------------------------------------
(* Job records: the keys remove_duplicates and its policies look at *)

JobRecord(i, src, sal) == [id |-> i, source |-> src, salary |-> sal]

\* The kinds of record a batch is made of: a source (merojob and jobaxle are
\* ranked by source_priority, kumarijob is not) and an optional field, here
\* salary, empty or populated.
JobKinds ==
    {<<"merojob", "NRs 50000">>, <<"merojob", "">>,
     <<"jobaxle", "">>, <<"kumarijob", "NRs 50000">>}

\* the empty string as an id: no record id is negative
NoId == -1

\* str(job.get('id', ''))
IdStr(job) == IF "id" \in DOMAIN job THEN job.id ELSE NoId

\* job.get('source', '')
SourceOf(job) == IF "source" \in DOMAIN job THEN job.source ELSE ""

\* next(job for job in jobs_data if str(job.get('id', '')) == wanted):
\* the position of the first such record, 0 when next() raises StopIteration
FindJob(jobs, wanted) ==
    IF \E i \in 1..Len(jobs) : IdStr(jobs[i]) = wanted
    THEN CHOOSE i \in 1..Len(jobs) :
            /\ IdStr(jobs[i]) = wanted
            /\ \A k \in 1..(i - 1) : IdStr(jobs[k]) # wanted
    ELSE 0

\* rank given to a source that source_priority does not list
UnrankedPriority == 999

\* a plausible slip: an unlisted source gets rank 0 and beats every listed one
source_priority_unranked_first(source) ==
    CASE source = "merojob" -> 1
      [] source = "jobaxle" -> 2
      [] source = "froxjob" -> 3
      [] source = "hamrojobs" -> 4
      [] OTHER -> 0

\* source_priority.get(job.get('source', ''), 999)
source_priority(source) ==
    CASE source = "merojob" -> 1
      [] source = "jobaxle" -> 2
      [] source = "froxjob" -> 3
      [] source = "hamrojobs" -> 4
      [] OTHER -> UnrankedPriority

----------------------------------------------------------------------------
(* remove_duplicates *)

\* a plausible slip: the threshold is not applied
ActedOnAlways(dup, cfg) == TRUE

\* if dup.confidence >= self.config['min_confidence']
ActedOn(dup, cfg) == dup.confidence >= cfg.min_confidence

\* a plausible slip: the first id of the pair is discarded
KeepFirstDiscardsFirst(dup) == dup.job1_id

\* keep_first: jobs_to_remove.add(dup.job2_id)
KeepFirstDiscard(dup) == dup.job2_id

\* keep_best_source, once both records are found
BestSourceDiscard(job1, job2, dup) ==
    IF source_priority(SourceOf(job1)) <= source_priority(SourceOf(job2))
    THEN dup.job2_id
    ELSE dup.job1_id

NoDecision == [kind |-> "none"]
Raise == [kind |-> "StopIteration"]
Discard(i) == [kind |-> "discard", id |-> i]

\* what the loop body does for one match: nothing, an exception, or one id
\* added to jobs_to_remove.  A policy name without a branch falls through.
Decision(jobs, dup, strat, cfg) ==
    IF ~ActedOn(dup, cfg) THEN NoDecision
    ELSE IF strat = "keep_first" THEN Discard(KeepFirstDiscard(dup))
    ELSE IF strat = "keep_best_source"
    THEN IF FindJob(jobs, dup.job1_id) = 0 \/ FindJob(jobs, dup.job2_id) = 0
         THEN Raise
         ELSE Discard(BestSourceDiscard(jobs[FindJob(jobs, dup.job1_id)],
                                        jobs[FindJob(jobs, dup.job2_id)], dup))
    ELSE NoDecision

Combine(st, d) ==
    IF st.raised \/ d.kind = "none" THEN st
    ELSE IF d.kind = "StopIteration" THEN [st EXCEPT !.raised = TRUE]
    ELSE [st EXCEPT !.jobs_to_remove = @ \cup {d.id}]

\* a plausible slip: a match whose first record is already marked is skipped
ApplyMatchCascading(jobs, dup, strat, cfg, st) ==
    IF dup.job1_id \in st.jobs_to_remove THEN st
    ELSE Combine(st, Decision(jobs, dup, strat, cfg))

\* one iteration of "for dup in duplicates"
ApplyMatch(jobs, dup, strat, cfg, st) ==
    Combine(st, Decision(jobs, dup, strat, cfg))

RECURSIVE ApplyAll(_, _, _, _, _)
ApplyAll(jobs, dups, strat, cfg, st) ==
    IF dups = << >> THEN st
    ELSE ApplyAll(jobs, Tail(dups), strat, cfg,
                  ApplyMatch(jobs, Head(dups), strat, cfg, st))

\* a plausible slip: the last record is lost by an off-by-one in the filter
FilterJobsDropLast(jobs, removed) ==
    SelectSeq(SubSeq(jobs, 1, Len(jobs) - 1), LAMBDA job : IdStr(job) \notin removed)

\* [job for job in jobs_data if str(job.get('id', '')) not in jobs_to_remove]
FilterJobs(jobs, removed) ==
    SelectSeq(jobs, LAMBDA job : IdStr(job) \notin removed)

\* the whole call: the discard set, then the filter, unless the loop raised
remove_duplicates(jobs, dups, strat, cfg) ==
    LET st == ApplyAll(jobs, dups, strat, cfg,
                       [jobs_to_remove |-> {}, raised |-> FALSE]) IN
    IF st.raised
    THEN [outcome |-> "StopIteration", jobs_to_remove |-> st.jobs_to_remove,
          cleaned_jobs |-> << >>]
    ELSE [outcome |-> "returned", jobs_to_remove |-> st.jobs_to_remove,
          cleaned_jobs |-> FilterJobs(jobs, st.jobs_to_remove)]

----------------------------------------------------------------------------
(* The resolver's caller: a batch of records with ids "1", "2", ... in     *)
(* order, a list of matches over JobIds, then one call of                  *)
(* remove_duplicates with a policy name.                                   *)

\* The matches a detect_duplicates run over such a batch can hand over.  The
\* exact, fuzzy and semantic strategies report a pair in batch order, which
\* is id order here; the cross-source strategy reports it in the order in
\* which the two sources first appear, so also as (later, earlier).  With the
\* default thresholds only a semantic match can fall below min_confidence
\* (0.7 * 0.8 = 0.56) or on it (0.75 * 0.8 = 0.6).
ForwardPairs == {p \in IdPairs : p[1] < p[2]}
BackwardPairs == {p \in IdPairs : p[1] > p[2]}

ResolverMatches ==
    {Match(p[1], p[2], "exact", ExactConfidence) : p \in ForwardPairs}
        \cup {Match(p[1], p[2], "semantic", c) : p \in ForwardPairs, c \in {56 * Hundredth, 60 * Hundredth}}
        \cup {Match(p[1], p[2], "cross_source", 90 * Hundredth) : p \in BackwardPairs}

\* the three policy names of the docstring and the command line, and one
\* name that is none of them
Strategies == {"keep_first", "keep_best_source", "keep_most_complete", "keep_newest"}

InitResolve ==
    /\ config = _default_config
    /\ results = EmptyResults
    /\ all_duplicates = << >>
    /\ jobs_data = << >>
    /\ duplicates = << >>
    /\ strategy = "keep_first"
    /\ jobs_to_remove = {}
    /\ cleaned_jobs = << >>
    /\ outcome = "none"
    /\ pc = "load"
    /\ NormalizerIdle
    /\ summary = NoSummary
    /\ VectorizerUnfitted
    /\ WorkflowIdle

DetectorUntouched ==
    /\ UNCHANGED <<config, results, all_duplicates, summary>>
    /\ NormalizerUntouched
    /\ VectorizerUntouched
    /\ WorkflowUntouched

\* the data loader appends one more record to the batch
LoadJob(kind) ==
    /\ pc = "load"
    /\ duplicates = << >>
    /\ Len(jobs_data) < MaxJobs
    /\ jobs_data' = Append(jobs_data, JobRecord(Len(jobs_data) + 1, kind[1], kind[2]))
    /\ UNCHANGED <<duplicates, strategy, jobs_to_remove, cleaned_jobs, outcome, pc>>
    /\ DetectorUntouched

\* one more match in the list that will be handed to remove_duplicates
ReportMatch(m) ==
    /\ pc = "load"
    /\ Len(duplicates) < MaxMatches
    /\ duplicates' = Append(duplicates, m)
    /\ UNCHANGED <<jobs_data, strategy, jobs_to_remove, cleaned_jobs, outcome, pc>>
    /\ DetectorUntouched

\* cleaned_jobs = detector.remove_duplicates(jobs_data, duplicates, strategy=strat)
RemoveDuplicates(strat) ==
    /\ pc = "load"
    /\ LET r == remove_duplicates(jobs_data, duplicates, strat, config) IN
        /\ strategy' = strat
        /\ jobs_to_remove' = r.jobs_to_remove
        /\ cleaned_jobs' = r.cleaned_jobs
        /\ outcome' = r.outcome
    /\ pc' = "done"
    /\ UNCHANGED <<jobs_data, duplicates>>
    /\ DetectorUntouched

NextResolve ==
    \/ \E kind \in JobKinds : LoadJob(kind)
    \/ \E m \in ResolverMatches : ReportMatch(m)
    \/ \E strat \in Strategies : RemoveDuplicates(strat)

SpecResolve == InitResolve /\ [][NextResolve]_vars

----------------------------------------------------------------------------
(* Properties of the match consolidator, under SpecConsolidate *)

PairSet(d) == {d.job1_id, d.job2_id}
Raw == RawInOrder(results)

\* C1: the consolidated list holds at most one entry per unordered pair of
\* record ids, whether the pair arrived as (A,B) or as (B,A).
C1_OneEntryPerPair ==
    pc = "done" =>
        \A i, j \in 1..Len(all_duplicates) :
            i # j => PairSet(all_duplicates[i]) # PairSet(all_duplicates[j])

\* a pair was reported in both orders and the lists were consolidated
C1_Witness ==
    /\ pc = "done"
    /\ \E i, j \in 1..Len(Raw) :
          /\ Raw[i].job1_id = Raw[j].job2_id
          /\ Raw[i].job2_id = Raw[j].job1_id
    /\ Len(all_duplicates) >= 2

\* the raw entries that report the same unordered pair as entry k
SamePair(k) == {i \in 1..Len(Raw) : PairSet(Raw[i]) = PairSet(Raw[k])}
\* among them, the first one in the order exact, fuzzy, semantic,
\* cross_source that has the highest confidence
BestOf(k) ==
    CHOOSE i \in SamePair(k) :
        /\ \A o \in SamePair(k) : Raw[o].confidence <= Raw[i].confidence
        /\ \A o \in SamePair(k) :
              Raw[o].confidence = Raw[i].confidence => i <= o

\* C2: for a pair reported several times, the entry kept is the one of
\* highest confidence, and among several of that confidence the one seen
\* first in the order exact, fuzzy, semantic, cross_source.
C2_KeepsHighestFirstSeen ==
    pc = "done" =>
        \A k \in 1..Len(Raw) :
            \A e \in 1..Len(all_duplicates) :
                PairSet(all_duplicates[e]) = PairSet(Raw[k])
                    => all_duplicates[e] = Raw[BestOf(k)]

\* a pair was reported by two strategies with the same, highest confidence,
\* and a third report of it was lower
C2_Witness ==
    /\ pc = "done"
    /\ \E i, j, l \in 1..Len(Raw) :
          /\ i < j
          /\ {i, j, l} \subseteq SamePair(i)
          /\ Raw[i].match_type # Raw[j].match_type
          /\ Raw[i].confidence = Raw[j].confidence
          /\ Raw[l].confidence < Raw[i].confidence
          /\ BestOf(i) = i

\* C3: the consolidated list is ordered by confidence descending.
C3_SortedByConfidence ==
    pc = "done" =>
        \A i \in 1..(Len(all_duplicates) - 1) :
            all_duplicates[i].confidence >= all_duplicates[i + 1].confidence

\* two different pairs were reported, the less confident one first
C3_Witness ==
    /\ pc = "done"
    /\ Len(all_duplicates) >= 2
    /\ \E i, j \in 1..Len(Raw) :
          /\ i < j
          /\ PairSet(Raw[i]) # PairSet(Raw[j])
          /\ Raw[i].confidence < Raw[j].confidence

----------------------------------------------------------------------------
(* Properties of the duplicate resolver, under SpecResolve *)

Returned == pc = "done" /\ outcome = "returned"

\* the positions of the matches at or above the detector's min_confidence
Confident == {k \in 1..Len(duplicates) :
                 duplicates[k].confidence >= config.min_confidence}

\* record i of the batch is among the returned records
Survives(i) == \E j \in 1..Len(cleaned_jobs) : cleaned_jobs[j] = jobs_data[i]

\* the record of the batch with the given id (ids are unique in a batch)
JobOf(i) == jobs_data[CHOOSE k \in 1..Len(jobs_data) : jobs_data[k].id = i]
InBatch(i) == \E k \in 1..Len(jobs_data) : jobs_data[k].id = i

\* C4: only matches with confidence >= min_confidence are acted upon: a
\* record that appears only in matches below min_confidence is in the
\* returned list under every policy, and a list of such matches alone
\* returns the batch as it is.
C4_BelowThresholdIgnored ==
    pc = "done" =>
        /\ outcome = "returned" =>
              \A i \in 1..Len(jobs_data) :
                  (\A k \in Confident : jobs_data[i].id \notin PairSet(duplicates[k]))
                      => Survives(i)
        /\ Confident = {} => outcome = "returned" /\ cleaned_jobs = jobs_data

\* a record that is named, as the second id, in a match below min_confidence
\* only, while another match was acted upon
C4_Witness ==
    /\ Returned
    /\ Confident # {}
    /\ \E i \in 1..Len(jobs_data) :
          /\ \E k \in 1..Len(duplicates) : duplicates[k].job2_id = jobs_data[i].id
          /\ \A k \in Confident : jobs_data[i].id \notin PairSet(duplicates[k])
          /\ Survives(i)

\* C5: under keep_first the discard set is exactly the set of job2_id of the
\* matches with confidence >= min_confidence; two identical records with ids
\* 1 and 2, reported as an exact pair, leave the single record with id 1.
C5_KeepFirst ==
    (pc = "done" /\ strategy = "keep_first") =>
        /\ outcome = "returned"
        /\ jobs_to_remove = {duplicates[k].job2_id : k \in Confident}
        /\ (/\ Len(jobs_data) = 2
            /\ duplicates = <<Match(1, 2, "exact", ExactConfidence)>>)
              => cleaned_jobs = <<jobs_data[1]>>

\* the two identical records, their exact match, resolved with keep_first
C5_Witness ==
    /\ Returned
    /\ strategy = "keep_first"
    /\ Len(jobs_data) = 2
    /\ jobs_data[1].source = jobs_data[2].source
    /\ jobs_data[1].salary = jobs_data[2].salary
    /\ duplicates = <<Match(1, 2, "exact", ExactConfidence)>>
    /\ cleaned_jobs = <<jobs_data[1]>>

\* the fixed source-priority order, best first
RankedSources == <<"merojob", "jobaxle", "froxjob", "hamrojobs">>
IsRanked(src) == \E i \in 1..Len(RankedSources) : RankedSources[i] = src
RankOf(src) == CHOOSE i \in 1..Len(RankedSources) : RankedSources[i] = src
\* source a ranks strictly above source b
RanksAbove(a, b) ==
    IsRanked(a) /\ (~IsRanked(b) \/ RankOf(a) < RankOf(b))

\* the id that a match costs under keep_best_source, as the policy is stated
LowerRanked(dup) ==
    IF RanksAbove(JobOf(dup.job2_id).source, JobOf(dup.job1_id).source)
    THEN dup.job1_id
    ELSE dup.job2_id

\* C6: under keep_best_source every acted-on match discards the record whose
\* source ranks lower in the fixed order, an unlisted source ranking below
\* every listed one, and the second id when both rank equally.
C6_KeepBestSource ==
    (Returned /\ strategy = "keep_best_source") =>
        /\ \A k \in Confident :
              InBatch(duplicates[k].job1_id) /\ InBatch(duplicates[k].job2_id)
        /\ jobs_to_remove = {LowerRanked(duplicates[k]) : k \in Confident}

\* keep_best_source discarded the first id of a pair, a record of an
\* unlisted source matched with a record of a listed one
C6_Witness ==
    /\ Returned
    /\ strategy = "keep_best_source"
    /\ \E k \in Confident :
          /\ ~IsRanked(JobOf(duplicates[k].job1_id).source)
          /\ IsRanked(JobOf(duplicates[k].job2_id).source)
          /\ duplicates[k].job1_id \in jobs_to_remove
          /\ duplicates[k].job2_id \notin jobs_to_remove
    /\ Len(cleaned_jobs) < Len(jobs_data)

\* the number of populated optional fields of a record
PopulatedCount(job) == IF job.salary # "" THEN 1 ELSE 0

\* the id that a match costs under keep_most_complete, as the policy is stated
LessComplete(dup) ==
    IF PopulatedCount(JobOf(dup.job1_id)) < PopulatedCount(JobOf(dup.job2_id))
    THEN dup.job1_id
    ELSE dup.job2_id

\* C7: under keep_most_complete every acted-on match discards the record
\* with fewer populated optional fields, and the second id when both have
\* the same number.
C7_KeepMostComplete ==
    (/\ Returned
     /\ strategy = "keep_most_complete"
     /\ \A k \in Confident :
           InBatch(duplicates[k].job1_id) /\ InBatch(duplicates[k].job2_id))
        => jobs_to_remove = {LessComplete(duplicates[k]) : k \in Confident}

KnownPolicies == {"keep_first", "keep_best_source", "keep_most_complete"}

\* C8: a call with a policy name that is none of the three ends in a
\* configuration error, with no record discarded; it does not return a list.
C8_UnknownPolicyIsError ==
    (pc = "done" /\ strategy \notin KnownPolicies) =>
        /\ outcome = "ConfigurationError"
        /\ jobs_to_remove = {}

\* the match list in another order
Reordered(f) == [k \in 1..Len(duplicates) |-> duplicates[f[k]]]

\* C9: each match is decided from the match and the original record list
\* alone, so every permutation of the match list gives the same outcome,
\* the same discard set and the same returned records.
C9_OrderIndependent ==
    pc = "done" =>
        \A f \in Permutations(1..Len(duplicates)) :
            LET r == remove_duplicates(jobs_data, Reordered(f), strategy, config) IN
            /\ r.outcome = outcome
            /\ r.cleaned_jobs = cleaned_jobs
            /\ outcome = "returned" => r.jobs_to_remove = jobs_to_remove

\* two acted-on matches, the second about the record the first one discarded
C9_Witness ==
    /\ Returned
    /\ strategy \in {"keep_first", "keep_best_source"}
    /\ Len(duplicates) = 2
    /\ Confident = {1, 2}
    /\ duplicates[2].job1_id = duplicates[1].job2_id
    /\ duplicates[1].job2_id \in jobs_to_remove
    /\ duplicates[2].job2_id \in jobs_to_remove
    /\ Len(cleaned_jobs) < Len(jobs_data)

RECURSIVE IsSubsequence(_, _)
IsSubsequence(s, t) ==
    IF s = << >> THEN TRUE
    ELSE IF t = << >> THEN FALSE
    ELSE IF Head(s) = Head(t) THEN IsSubsequence(Tail(s), Tail(t))
    ELSE IsSubsequence(s, Tail(t))

ResultIsFilteredInput ==
    Returned =>
        /\ IsSubsequence(cleaned_jobs, jobs_data)
        /\ \A i \in 1..Len(jobs_data) :
              Survives(i) <=> jobs_data[i].id \notin jobs_to_remove
        /\ Len(cleaned_jobs) <= Len(jobs_data)
        /\ \A i, j \in 1..Len(cleaned_jobs) :
              i # j => cleaned_jobs[i].id # cleaned_jobs[j].id

\* C10: the returned list is a subsequence of the input list, holding
\* exactly the records whose id is not in the discard set, unmodified and in
\* their order, so it is no longer than the input and its ids are unique;
\* the call leaves the input list as it was.
C10_FilteredSubsequence ==
    /\ []ResultIsFilteredInput
    /\ [][pc' = "done" => jobs_data' = jobs_data]_vars

\* a record from the middle of a batch was discarded, the others returned
C10_Witness ==
    /\ Returned
    /\ Len(jobs_data) >= 2
    /\ Len(cleaned_jobs) = Len(jobs_data) - 1
    /\ cleaned_jobs[1] = jobs_data[1]
    /\ jobs_to_remove # {}

----------------------------------------------------------------------------
(* Text.  A string is the sequence of its characters.                      *)

LowerAlphabet ==
    <<"a", "b", "c", "d", "e", "f", "g", "h", "i", "j", "k", "l", "m",
      "n", "o", "p", "q", "r", "s", "t", "u", "v", "w", "x", "y", "z">>
UpperAlphabet ==
    <<"A", "B", "C", "D", "E", "F", "G", "H", "I", "J", "K", "L", "M",
      "N", "O", "P", "Q", "R", "S", "T", "U", "V", "W", "X", "Y", "Z">>
LowerLetters == {LowerAlphabet[i] : i \in 1..Len(LowerAlphabet)}
UpperLetters == {UpperAlphabet[i] : i \in 1..Len(UpperAlphabet)}

\* str.lower(), on one character
Lower(c) ==
    IF c \in UpperLetters
    THEN LowerAlphabet[CHOOSE i \in 1..Len(UpperAlphabet) : UpperAlphabet[i] = c]
    ELSE c

\* the regular-expression classes \s and \w
IsSpace(c) == c = " "
Digits == {"0", "1", "2", "3", "4", "5", "6", "7", "8", "9"}
IsWordChar(c) == c \in LowerLetters \cup UpperLetters \cup Digits \cup {"_"}

LowerText(t) == [i \in 1..Len(t) |-> Lower(t[i])]

RECURSIVE LStrip(_)
LStrip(t) == IF t # << >> /\ IsSpace(Head(t)) THEN LStrip(Tail(t)) ELSE t

RECURSIVE RStrip(_)
RStrip(t) ==
    IF t # << >> /\ IsSpace(t[Len(t)]) THEN RStrip(SubSeq(t, 1, Len(t) - 1)) ELSE t

\* str.strip()
Strip(t) == RStrip(LStrip(t))

\* re.sub(r'\s+', ' ', text)
RECURSIVE CollapseSpaces(_)
CollapseSpaces(t) ==
    IF t = << >> THEN << >>
    ELSE IF IsSpace(Head(t)) THEN <<" ">> \o CollapseSpaces(LStrip(Tail(t)))
    ELSE <<Head(t)>> \o CollapseSpaces(Tail(t))

\* re.sub(r'[^\w\s-]', ' ', text)
BlankSpecials(t) ==
    [i \in 1..Len(t) |->
        IF IsWordChar(t[i]) \/ IsSpace(t[i]) \/ t[i] = "-" THEN t[i] ELSE " "]

\* _clean_text; a missing or null field arrives as the empty string
_clean_text(t) ==
    IF t = << >> THEN << >>
    ELSE BlankSpecials(Strip(CollapseSpaces(LowerText(t))))

\* str.split(): the words between runs of whitespace
RECURSIVE SplitFrom(_, _, _)
SplitFrom(t, word, words) ==
    IF t = << >>
    THEN IF word = << >> THEN words ELSE Append(words, word)
    ELSE IF IsSpace(Head(t))
         THEN SplitFrom(Tail(t), << >>,
                        IF word = << >> THEN words ELSE Append(words, word))
         ELSE SplitFrom(Tail(t), Append(word, Head(t)), words)

Split(t) == SplitFrom(t, << >>, << >>)

\* ' '.join(words)
RECURSIVE Join(_)
Join(words) ==
    IF words = << >> THEN << >>
    ELSE IF Len(words) = 1 THEN Head(words)
    ELSE Head(words) \o <<" ">> \o Join(Tail(words))

\* noise_words = {'job', 'position', 'role', 'vacancy', 'opportunity', 'career'}
noise_words ==
    {<<"j", "o", "b">>,
     <<"p", "o", "s", "i", "t", "i", "o", "n">>,
     <<"r", "o", "l", "e">>,
     <<"v", "a", "c", "a", "n", "c", "y">>,
     <<"o", "p", "p", "o", "r", "t", "u", "n", "i", "t", "y">>,
     <<"c", "a", "r", "e", "e", "r">>}

\* _normalize_text
_normalize_text(t) ==
    IF t = << >> THEN << >>
    ELSE Join(SelectSeq(Split(t), LAMBDA w : w \notin noise_words))

\* the company suffixes, in the order in which they are removed
suffixes ==
    << <<"p", "v", "t", " ", "l", "t", "d">>,
       <<"p", "r", "i", "v", "a", "t", "e", " ", "l", "i", "m", "i", "t", "e", "d">>,
       <<"l", "t", "d">>,
       <<"i", "n", "c">>,
       <<"c", "o", "r", "p">>,
       <<"c", "o", "r", "p", "o", "r", "a", "t", "i", "o", "n">>,
       <<"c", "o", "m", "p", "a", "n", "y">>,
       <<"c", "o">>,
       <<"l", "i", "m", "i", "t", "e", "d">>,
       <<"l", "l", "c">>,
       <<"p", "l", "c">> >>

\* the pattern \b<suffix>\b matches t at position i
SuffixAt(t, i, suffix) ==
    /\ i + Len(suffix) - 1 <= Len(t)
    /\ SubSeq(t, i, i + Len(suffix) - 1) = suffix
    /\ (i = 1 \/ ~IsWordChar(t[i - 1]))
    /\ (i + Len(suffix) > Len(t) \/ ~IsWordChar(t[i + Len(suffix)]))

\* re.sub(rf'\b{suffix}\b', '', t), scanning from position i
RECURSIVE RemoveSuffixFrom(_, _, _)
RemoveSuffixFrom(t, i, suffix) ==
    IF i > Len(t) THEN << >>
    ELSE IF SuffixAt(t, i, suffix) THEN RemoveSuffixFrom(t, i + Len(suffix), suffix)
    ELSE <<t[i]>> \o RemoveSuffixFrom(t, i + 1, suffix)

\* for suffix in suffixes: normalized = re.sub(...)
RECURSIVE RemoveSuffixes(_, _)
RemoveSuffixes(t, k) ==
    IF k > Len(suffixes) THEN t
    ELSE RemoveSuffixes(RemoveSuffixFrom(t, 1, suffixes[k]), k + 1)

\* _normalize_company_name
_normalize_company_name(t) ==
    IF t = << >> THEN << >>
    ELSE Strip(RemoveSuffixes(LowerText(t), 1))

\* the title and description path, and the company path, of _preprocess_data
TitleForm(t) == _normalize_text(_clean_text(t))
CompanyForm(t) == _normalize_company_name(_clean_text(t))

----------------------------------------------------------------------------
(* The record normalizer on one text field: a raw text of up to MaxLen     *)
(* characters, normalized, and its normal form normalized once more.       *)

\* length of a raw text
MaxLen == 4

\* the characters of a raw text: letters of the noise word 'job' and of the
\* suffix 'co', an upper-case letter, whitespace, punctuation, a hyphen
TextChars == {"j", "o", "b", "c", "A", " ", ",", "-"}

InitNormalize ==
    /\ config = _default_config
    /\ results = [exact_duplicates |-> << >>, fuzzy_duplicates |-> << >>,
                  semantic_duplicates |-> << >>, cross_source_duplicates |-> << >>]
    /\ all_duplicates = << >>
    /\ jobs_data = << >>
    /\ duplicates = << >>
    /\ strategy = "keep_first"
    /\ jobs_to_remove = {}
    /\ cleaned_jobs = << >>
    /\ outcome = "none"
    /\ pc = "text"
    /\ NormalizerIdle
    /\ summary = NoSummary
    /\ VectorizerUnfitted
    /\ WorkflowIdle

OnlyNormalizer ==
    UNCHANGED <<config, results, all_duplicates, jobs_data, duplicates, strategy,
                jobs_to_remove, cleaned_jobs, summary, vectorizer, workflow>>

\* the raw field grows by one character
TypeChar(c) ==
    /\ pc = "text"
    /\ Len(text) < MaxLen
    /\ text' = Append(text, c)
    /\ UNCHANGED <<forms, outcome, pc>>
    /\ OnlyNormalizer

\* the field goes through _preprocess_data, and its normal forms go through
\* it again
Normalize ==
    /\ pc = "text"
    /\ forms' = [title |-> TitleForm(text),
                 title_again |-> TitleForm(TitleForm(text)),
                 company |-> CompanyForm(text),
                 company_again |-> CompanyForm(CompanyForm(text))]
    /\ outcome' = "returned"
    /\ pc' = "done"
    /\ UNCHANGED text
    /\ OnlyNormalizer

NextNormalize ==
    \/ \E c \in TextChars : TypeChar(c)
    \/ Normalize

SpecNormalize == InitNormalize /\ [][NextNormalize]_vars

\* C19: normalization is idempotent: cleaning and normalizing the normal
\* form of a text returns it unchanged, on the title and description path
\* and on the company path.
C19_NormalizationIdempotent ==
    pc = "done" =>
        /\ forms.title_again = forms.title
        /\ forms.company_again = forms.company

----------------------------------------------------------------------------
(* difflib.SequenceMatcher(None, a, b).ratio(), on texts too short for its *)
(* junk heuristic.                                                         *)

\* length of the common run of a from i and b from j, inside a[..ahi], b[..bhi]
RECURSIVE RunLength(_, _, _, _, _, _)
RunLength(a, b, i, j, ahi, bhi) ==
    IF i > ahi \/ j > bhi \/ a[i] # b[j] THEN 0
    ELSE 1 + RunLength(a, b, i + 1, j + 1, ahi, bhi)

\* the starts of the longest common runs inside a[..ahi], b[..bhi]
LongestBlocks(a, b, starts, ahi, bhi) ==
    {p \in starts :
        \A q \in starts :
            RunLength(a, b, q[1], q[2], ahi, bhi) <= RunLength(a, b, p[1], p[2], ahi, bhi)}

\* of the given blocks, the one starting earliest in a, then earliest in b
EarliestBlock(blocks) ==
    CHOOSE p \in blocks :
        \A q \in blocks : p[1] < q[1] \/ (p[1] = q[1] /\ p[2] <= q[2])

\* a block <<i, j>> with its length
BlockWithLength(a, b, p, ahi, bhi) ==
    <<p[1], p[2], RunLength(a, b, p[1], p[2], ahi, bhi)>>

\* find_longest_match(alo, ahi, blo, bhi): the longest matching block, of
\* those the one starting earliest in a, of those the one starting earliest
\* in b; <<i, j, k>> with k = 0 when nothing matches
find_longest_match(a, b, alo, ahi, blo, bhi) ==
    IF alo > ahi \/ blo > bhi THEN <<alo, blo, 0>>
    ELSE BlockWithLength(a, b,
             EarliestBlock(LongestBlocks(a, b, (alo..ahi) \X (blo..bhi), ahi, bhi)),
             ahi, bhi)

\* get_matching_blocks(): the total size of the blocks found by taking the
\* longest block m and recursing to its left and to its right
RECURSIVE MatchedChars(_, _, _, _, _, _)
RECURSIVE MatchedAround(_, _, _, _, _, _, _)
MatchedAround(a, b, m, alo, ahi, blo, bhi) ==
    IF m[3] = 0 THEN 0
    ELSE m[3] + MatchedChars(a, b, alo, m[1] - 1, blo, m[2] - 1)
              + MatchedChars(a, b, m[1] + m[3], ahi, m[2] + m[3], bhi)

MatchedChars(a, b, alo, ahi, blo, bhi) ==
    MatchedAround(a, b, find_longest_match(a, b, alo, ahi, blo, bhi), alo, ahi, blo, bhi)

\* ratio() = 2.0 * matches / length, 1.0 when both texts are empty; as the
\* pair <<numerator, denominator>>
ratio(a, b) ==
    IF Len(a) + Len(b) = 0 THEN <<1, 1>>
    ELSE <<2 * MatchedChars(a, b, 1, Len(a), 1, Len(b)), Len(a) + Len(b)>>

----------------------------------------------------------------------------
(* Records of a batch.  A record is a dictionary: it has the keys it was   *)
(* given.  In the DataFrame built from a batch a column exists when some   *)
(* record has the key, and a record without the key holds NaN there.       *)

\* number of records in a batch
MaxBatch == 3

\* the texts of the records below, before and after cleaning
t_aba == <<"a", "b", "a">>
t_Aba == <<"A", "b", "a">>
t_bca == <<"b", "c", "a">>
t_job == <<"j", "o", "b">>
t_ab == <<"a", "b">>
t_ab_co == <<"a", "b", " ", "c", "o">>
t_k_n == <<"k", " ", "n">>
t_k_comma_n == <<"k", ",", " ", "n">>

\* the records a batch is made of, without their ids: the same listing from
\* two sources and written in two ways; a title that is the other in another
\* order; a location whose punctuation differs; a title that is a noise
\* word, or empty; records without a title, a company, a location, a source
RecordKinds ==
    { [title |-> t_aba, company |-> t_ab, location |-> t_k_n, source |-> "merojob"],
      [title |-> t_Aba, company |-> t_ab_co, location |-> t_k_n,
       description |-> t_ab, source |-> "jobaxle"],
      [title |-> t_bca, company |-> t_ab, location |-> t_k_n, source |-> "merojob"],
      [title |-> t_bca, company |-> t_ab, location |-> t_k_n, source |-> "jobaxle"],
      [title |-> t_aba, company |-> t_ab, location |-> t_k_comma_n, source |-> "merojob"],
      [title |-> t_job, company |-> t_ab, location |-> t_k_n, source |-> "jobaxle"],
      [title |-> << >>, company |-> t_ab, location |-> t_k_n, source |-> "merojob"],
      [title |-> t_aba, company |-> t_ab],
      [title |-> t_aba, location |-> t_k_n, source |-> "merojob"],
      [company |-> t_ab, location |-> t_k_n, source |-> "merojob"] }

\* number of records in a batch handed to the workflow
MaxHandled == 4

\* The records a batch handed to the workflow is made of: an unrelated
\* listing; one listing as two sites and one site twice carry it, once with
\* another location; and a listing that shares the title of the unrelated
\* one and has a description.
HandledKinds ==
    { [title |-> t_aba, company |-> t_ab, location |-> t_k_n, source |-> "merojob"],
      [title |-> t_bca, company |-> t_ab, location |-> t_k_n, source |-> "jobaxle"],
      [title |-> t_bca, company |-> t_ab, location |-> t_k_n, source |-> "merojob"],
      [title |-> t_bca, company |-> t_ab, location |-> t_ab, source |-> "merojob"],
      [title |-> t_Aba, company |-> t_ab_co, location |-> t_k_n,
       description |-> t_ab, source |-> "jobaxle"] }

\* df.columns
Columns(jobs) == UNION {DOMAIN jobs[i] : i \in 1..Len(jobs)}

\* df[field].fillna(''): the value of a record in a column
Field(job, field) == IF field \in DOMAIN job THEN job[field] ELSE << >>

\* the columns _preprocess_data reads without testing for them
RequiredColumns == {"title", "company"}

\* _preprocess_data raises KeyError
PreprocessRaises(jobs) == ~(RequiredColumns \subseteq Columns(jobs))

\* _generate_fingerprint: the digest of 'title|company|location', written as
\* the three texts it is the digest of (cleaning leaves no '|' in a text)
_generate_fingerprint(row) ==
    <<row.title_normalized, row.company_normalized, row.location_clean>>

\* df['fingerprint'] = df.apply(self._generate_fingerprint, axis=1)
WithFingerprint(row) == [fingerprint |-> _generate_fingerprint(row)] @@ row

\* the columns that _preprocess_data adds to the row of a record, from its
\* content; a column that does not exist reads as '' through row.get(..., '')
DerivedColumns(content) ==
    WithFingerprint(
        [title_clean |-> _clean_text(Field(content, "title")),
         title_normalized |-> TitleForm(Field(content, "title")),
         company_normalized |-> CompanyForm(Field(content, "company")),
         location_clean |-> _clean_text(Field(content, "location")),
         location_normalized |-> TitleForm(Field(content, "location")),
         description_clean |-> _clean_text(Field(content, "description"))])

\* the derived columns of every record a batch can hold
ColumnsOfKind == [kind \in RecordKinds \cup HandledKinds |-> DerivedColumns(kind)]

\* a record without its id
Content(job) == [k \in DOMAIN job \ {"id"} |-> job[k]]

\* the id of a row: the record's, or df.index.astype(str) when no record of
\* the batch has an id (the index counts from 0)
RowId(job, index) == IF "id" \in DOMAIN job THEN job.id ELSE index

\* the rows of the DataFrame from the given index on
RECURSIVE RowsFrom(_, _)
RowsFrom(jobs, index) ==
    IF jobs = << >> THEN << >>
    ELSE <<[id |-> RowId(Head(jobs), index)] @@ ColumnsOfKind[Content(Head(jobs))]>>
             \o RowsFrom(Tail(jobs), index + 1)

\* _preprocess_data, when it does not raise: the rows of the DataFrame
_preprocess_data(jobs) == RowsFrom(jobs, 0)

\* the text of a row that a field's similarity is taken on
ComparedText(row, field) ==
    CASE field = "title" -> row.title_clean
      [] field = "company" -> row.company_normalized
      [] field = "location" -> row.location_clean
      [] field = "description" -> row.description_clean

\* the texts whose similarity is taken
ComparedTexts ==
    {ComparedText(ColumnsOfKind[kind], field) :
        kind \in RecordKinds \cup HandledKinds,
        field \in {"title", "company", "location", "description"}}

----------------------------------------------------------------------------
(* DuplicateMatch values of the strategies *)

ScoredMatch(a, b, t, s, c, why) ==
    [job1_id |-> a, job2_id |-> b, match_type |-> t, similarity_score |-> s,
     confidence |-> c, reasons |-> why]

\* concatenation of a sequence of lists
RECURSIVE Flatten(_)
Flatten(lists) ==
    IF lists = << >> THEN << >> ELSE Head(lists) \o Flatten(Tail(lists))

\* the positions of a list that satisfy a test, in order
Positions(n, Test(_)) == SelectSeq([i \in 1..n |-> i], Test)

----------------------------------------------------------------------------
(* The exact strategy *)

\* a plausible slip: each member is paired with the next one only
GroupPairsAdjacent(ids) ==
    [i \in 1..(Len(ids) - 1) |->
        ScoredMatch(ids[i], ids[i + 1], "exact", Unit, ExactConfidence,
                    <<"identical_fingerprint">>)]

\* the pairs of one fingerprint group: for i, for j in range(i + 1, ...)
GroupPairs(ids) ==
    Flatten([i \in 1..Len(ids) |->
        [d \in 1..(Len(ids) - i) |->
            ScoredMatch(ids[i], ids[i + d], "exact", Unit, ExactConfidence,
                        <<"identical_fingerprint">>)]])

\* group['id'].tolist() of the group of one fingerprint
GroupIds(rows, fp) ==
    LET members == Positions(Len(rows), LAMBDA i : rows[i].fingerprint = fp)
    IN  [k \in 1..Len(members) |-> rows[members[k]].id]

\* the fingerprints shared by more than one row
SharedFingerprints(rows) ==
    {rows[i].fingerprint : i \in {i \in 1..Len(rows) :
        \E j \in 1..Len(rows) : j # i /\ rows[j].fingerprint = rows[i].fingerprint}}

\* the orders in which groupby can hand out the groups: the order of their
\* digests, which the texts do not determine
GroupOrders(fps) ==
    {order \in [1..Cardinality(fps) -> fps] :
        \A i, j \in 1..Cardinality(fps) : i # j => order[i] # order[j]}

\* _find_exact_duplicates, for one order of the groups
_find_exact_duplicates(rows, order) ==
    Flatten([g \in 1..Len(order) |-> GroupPairs(GroupIds(rows, order[g]))])

----------------------------------------------------------------------------
(* Weighted scores *)

\* SequenceMatcher(None, a, b).ratio() of every two compared texts
ratios == [pair \in ComparedTexts \X ComparedTexts |-> ratio(pair[1], pair[2])]

\* one field's share of a weighted score: weight * ratio / total weight
Term(weight, total_weight, r) ==
    (weight * r[1]) * (Unit \div (total_weight * r[2]))

\* ratio > percent / 100
RatioAbove(r, percent) == 100 * r[1] > percent * r[2]

\* the fields _calculate_fuzzy_similarity finds in both rows: title_clean and
\* company_normalized always, location_clean and description_clean when the
\* batch has the column
FuzzyFields(columns) ==
    {"title", "company"} \cup ({"location", "description"} \cap columns)

\* the sum of a number for each of the fields compared
SumOverFields(n) == n.title + n.company + n.location + n.description

\* total_weight: the weights of the given fields
TotalWeight(fields, weights) ==
    SumOverFields([f \in {"title", "company", "location", "description"} |->
                      IF f \in fields THEN weights[f] ELSE 0])

\* total_similarity / total_weight, each field's share taken apart
SharedOut(job1, job2, fields, weights, total_weight) ==
    SumOverFields([f \in {"title", "company", "location", "description"} |->
                      IF f \in fields
                      THEN Term(weights[f], total_weight,
                                ratios[ComparedText(job1, f), ComparedText(job2, f)])
                      ELSE 0])

\* total_similarity / total_weight over the given fields
WeightedScore(job1, job2, fields, weights) ==
    IF TotalWeight(fields, weights) > 0
    THEN SharedOut(job1, job2, fields, weights, TotalWeight(fields, weights))
    ELSE 0

\* _calculate_fuzzy_similarity
_calculate_fuzzy_similarity(job1, job2, columns, cfg) ==
    WeightedScore(job1, job2, FuzzyFields(columns), cfg.weights)

\* weights = {'title': 0.6, 'company': 0.4}
CrossSourceWeights == [title |-> 60, company |-> 40]

\* _calculate_cross_source_similarity
_calculate_cross_source_similarity(job1, job2) ==
    WeightedScore(job1, job2, {"title", "company"}, CrossSourceWeights)

\* the reasons given for a title_sim, a company_sim and a location_sim
ReasonsOf(sim, columns) ==
    (IF RatioAbove(sim.title, 90) THEN <<"very_similar_titles">>
     ELSE IF RatioAbove(sim.title, 70) THEN <<"similar_titles">> ELSE << >>)
    \o (IF RatioAbove(sim.company, 90) THEN <<"same_company">>
        ELSE IF RatioAbove(sim.company, 70) THEN <<"similar_company">> ELSE << >>)
    \o (IF "location" \in columns /\ RatioAbove(sim.location, 90)
        THEN <<"same_location">> ELSE << >>)

\* _get_similarity_reasons
_get_similarity_reasons(job1, job2, columns) ==
    ReasonsOf([f \in {"title", "company", "location"} |->
                  ratios[ComparedText(job1, f), ComparedText(job2, f)]],
              columns)

----------------------------------------------------------------------------
(* The fuzzy strategy *)

\* the cap of the confidence of a fuzzy match
FuzzyCap == 95 * Hundredth

\* a plausible slip: the confidence is not capped
FuzzyConfidenceUncapped(similarity) == similarity

\* confidence = min(similarity, 0.95)
FuzzyConfidence(similarity) == Min2(similarity, FuzzyCap)

\* if similarity >= self.config['fuzzy_threshold']: the match appended
FuzzyMatch(job1, job2, similarity, columns, cfg) ==
    IF similarity >= cfg.fuzzy_threshold
    THEN <<ScoredMatch(job1.id, job2.id, "fuzzy", similarity,
                       FuzzyConfidence(similarity),
                       _get_similarity_reasons(job1, job2, columns))>>
    ELSE << >>

\* the body of the two loops for the rows at i and j
FuzzyPair(rows, i, j, columns, cfg) ==
    FuzzyMatch(rows[i], rows[j],
               _calculate_fuzzy_similarity(rows[i], rows[j], columns, cfg), columns, cfg)

\* _find_fuzzy_duplicates: for i in range(len(df)), for j in range(i + 1, len(df))
_find_fuzzy_duplicates(rows, columns, cfg) ==
    Flatten([i \in 1..Len(rows) |->
        Flatten([d \in 1..(Len(rows) - i) |-> FuzzyPair(rows, i, i + d, columns, cfg)])])

----------------------------------------------------------------------------
(* The cross-source strategy *)

\* df['source'].unique() without NaN, in order of first appearance; NaN, the
\* source of a record without one, equals nothing, so that no row is
\* selected for it
RECURSIVE UniqueSources(_, _)
UniqueSources(jobs, seen) ==
    IF jobs = << >> THEN seen
    ELSE LET job == Head(jobs)
         IN  IF "source" \in DOMAIN job /\ \A k \in 1..Len(seen) : seen[k] # job.source
             THEN UniqueSources(Tail(jobs), Append(seen, job.source))
             ELSE UniqueSources(Tail(jobs), seen)

\* df[df['source'] == source]: the positions of its rows
RowsOfSource(jobs, source) ==
    Positions(Len(jobs),
              LAMBDA i : "source" \in DOMAIN jobs[i] /\ jobs[i].source = source)

\* a plausible slip: the confidence is the score itself
CrossSourceConfidenceFull(similarity) == similarity

\* confidence = similarity * 0.9
CrossSourceConfidence(similarity) == (similarity \div 10) * 9

\* f'cross_source_{source1}_{source2}', for the sources of the records here
cross_source_reason ==
    [merojob |-> [merojob |-> "cross_source_merojob_merojob",
                  jobaxle |-> "cross_source_merojob_jobaxle"],
     jobaxle |-> [merojob |-> "cross_source_jobaxle_merojob",
                  jobaxle |-> "cross_source_jobaxle_jobaxle"]]

\* if similarity >= self.config['high_similarity']: the match appended
CrossSourceMatch(job1, job2, similarity, source1, source2, cfg) ==
    IF similarity >= cfg.high_similarity
    THEN <<ScoredMatch(job1.id, job2.id, "cross_source", similarity,
                       CrossSourceConfidence(similarity),
                       <<cross_source_reason[source1][source2]>>)>>
    ELSE << >>

\* the body of the loops for one row of each of two sources
CrossSourcePair(rows, i, j, source1, source2, cfg) ==
    CrossSourceMatch(rows[i], rows[j],
                     _calculate_cross_source_similarity(rows[i], rows[j]),
                     source1, source2, cfg)

\* the rows of source1 against the rows of source2
CrossSourceFrames(jobs, rows, source1, source2, cfg) ==
    LET df1 == RowsOfSource(jobs, source1)
        df2 == RowsOfSource(jobs, source2)
    IN  Flatten([a \in 1..Len(df1) |->
            Flatten([b \in 1..Len(df2) |->
                CrossSourcePair(rows, df1[a], df2[b], source1, source2, cfg)])])

\* a plausible slip: every pair of rows that have a source is compared,
\* whatever the sources
find_cross_source_in_all_pairs(jobs, rows, cfg) ==
    Flatten([i \in 1..Len(rows) |->
        Flatten([d \in 1..(Len(rows) - i) |->
            IF "source" \in DOMAIN jobs[i] /\ "source" \in DOMAIN jobs[i + d]
            THEN CrossSourcePair(rows, i, i + d, jobs[i].source, jobs[i + d].source, cfg)
            ELSE << >>])])

\* _find_cross_source_duplicates
_find_cross_source_duplicates(jobs, rows, cfg) ==
    IF "source" \notin Columns(jobs) THEN << >>
    ELSE LET sources == UniqueSources(jobs, << >>)
         IN  Flatten([i \in 1..Len(sources) |->
                 Flatten([d \in 1..(Len(sources) - i) |->
                     CrossSourceFrames(jobs, rows, sources[i], sources[i + d], cfg)])])

----------------------------------------------------------------------------
(* The semantic strategy.  The TF-IDF vectors and their cosine similarities *)
(* come from a library; what is kept of them is which texts have terms,     *)
(* that equal term lists have similarity 1.0, and that texts with no term   *)
(* in common have similarity 0.  Any other similarity is left open.         *)

\* combined_text = f"{title_clean} {description_clean}"
CombinedText(row) == row.title_clean \o <<" ">> \o row.description_clean

\* the maximal runs of word characters of a text
RECURSIVE WordRuns(_, _, _)
WordRuns(t, word, words) ==
    IF t = << >>
    THEN IF word = << >> THEN words ELSE Append(words, word)
    ELSE IF IsWordChar(Head(t))
         THEN WordRuns(Tail(t), Append(word, Head(t)), words)
         ELSE WordRuns(Tail(t), << >>,
                       IF word = << >> THEN words ELSE Append(words, word))

\* the English stop words that the letters of the texts here can spell
english_stop_words ==
    {<<"a", "n">>, <<"n", "o">>, <<"o", "n">>, <<"c", "o">>,
     <<"c", "a", "n">>, <<"c", "o", "n">>, <<"b", "a", "c", "k">>}

\* the terms the vectorizer takes from a text: runs of two or more word
\* characters that are not stop words
Tokens(t) ==
    SelectSeq(WordRuns(t, << >>, << >>),
              LAMBDA w : Len(w) >= 2 /\ w \notin english_stop_words)

\* the terms of every text
RECURSIVE TokensOfTexts(_)
TokensOfTexts(texts) ==
    IF texts = << >> THEN << >>
    ELSE <<Tokens(Head(texts))>> \o TokensOfTexts(Tail(texts))

\* fit_transform raises ValueError: no text has a term (empty vocabulary)
VectorizerRaises(terms) == \A i \in 1..Len(terms) : terms[i] = << >>

\* the similarities a pair of texts can have when it is neither 1.0 nor 0:
\* one under and one over the medium threshold
PartialSimilarities == {50 * Hundredth, 75 * Hundredth}

\* what cosine_similarity can return for two texts, given their terms
PossibleSimilarities(terms1, terms2) ==
    IF \A a \in 1..Len(terms1), b \in 1..Len(terms2) : terms1[a] # terms2[b] THEN {0}
    ELSE IF terms1 = terms2 THEN {Unit}
    ELSE PartialSimilarities

\* the pairs of rows in the order of the loops: for i, for j in range(i + 1, n)
PairList(n) == Flatten([i \in 1..n |-> [d \in 1..(n - i) |-> <<i, i + d>>]])

\* the similarities cosine_similarity can return for the pairs listed
RECURSIVE SimilarityLists(_, _)
SimilarityLists(terms, pairs) ==
    IF pairs = << >> THEN {<< >>}
    ELSE {<<first>> \o rest :
            first \in PossibleSimilarities(terms[Head(pairs)[1]], terms[Head(pairs)[2]]),
            rest \in SimilarityLists(terms, Tail(pairs))}

\* the matrices cosine_similarity can return, above the diagonal and in the
\* order of PairList
SimilarityMatrices(terms) == SimilarityLists(terms, PairList(Len(terms)))

\* confidence = similarity * 0.8
SemanticConfidence(similarity) == (similarity \div 10) * 8

\* texts: the combined text of every row
RECURSIVE CombinedTexts(_)
CombinedTexts(rows) ==
    IF rows = << >> THEN << >>
    ELSE <<CombinedText(Head(rows))>> \o CombinedTexts(Tail(rows))

\* the terms of the combined text of every row
RowTerms(rows) == TokensOfTexts(CombinedTexts(rows))

\* the terms of the vocabulary that fit_transform learns from the texts
Vocabulary(terms) ==
    UNION {{terms[i][k] : k \in 1..Len(terms[i])} : i \in 1..Len(terms)}

\* a plausible slip: the vocabulary is learnt by the first call only, later
\* calls transform their texts with it
fit_once(vocabulary, rows, terms, cfg) ==
    IF ~cfg.enable_advanced_matching \/ rows = << >> \/ VectorizerRaises(terms)
    THEN vocabulary
    ELSE IF vocabulary # NoVocabulary THEN vocabulary
    ELSE Vocabulary(terms)

\* the terms of every text that the vocabulary has: the terms its vector
\* gives a weight to
RECURSIVE transform(_, _)
transform(vocabulary, terms) ==
    IF terms = << >> THEN << >>
    ELSE <<SelectSeq(Head(terms), LAMBDA term : term \in vocabulary)>>
            \o transform(vocabulary, Tail(terms))

\* self.vectorizer after _find_semantic_duplicates: fit_transform, when it
\* is reached and does not raise, replaces the vocabulary by that of the
\* texts at hand
fit_transform(vocabulary, rows, terms, cfg) ==
    IF ~cfg.enable_advanced_matching \/ rows = << >> \/ VectorizerRaises(terms)
    THEN vocabulary
    ELSE Vocabulary(terms)

\* _find_semantic_duplicates, for one similarity matrix
_find_semantic_duplicates(rows, terms, similarities, cfg) ==
    LET pairs == PairList(Len(rows))
        found(k) ==
            IF similarities[k] >= cfg.medium_similarity
            THEN <<ScoredMatch(rows[pairs[k][1]].id, rows[pairs[k][2]].id, "semantic",
                               similarities[k], SemanticConfidence(similarities[k]),
                               <<"semantic_similarity">>)>>
            ELSE << >>
    IN  IF ~cfg.enable_advanced_matching THEN << >>
        ELSE IF \A i \in 1..Len(rows) : CombinedText(rows[i]) = << >> THEN << >>
        ELSE IF VectorizerRaises(terms) THEN << >>
        ELSE Flatten([k \in 1..Len(pairs) |-> found(k)])

----------------------------------------------------------------------------
(* The summary *)

\* the ids named by a match list
IdsIn(matches) ==
    {matches[k].job1_id : k \in 1..Len(matches)}
        \cup {matches[k].job2_id : k \in 1..Len(matches)}

\* _generate_summary: the counts
_generate_summary(rows, matches) ==
    LET total_jobs == Len(rows)
        affected == Cardinality(IdsIn(matches))
    IN  [total_jobs |-> total_jobs,
         duplicate_pairs |-> Len(matches),
         unique_jobs_affected |-> affected,
         duplicate_rate |-> IF total_jobs > 0 THEN affected * (Unit \div total_jobs) ELSE 0,
         estimated_unique_jobs |-> total_jobs - affected + Len(matches)]

----------------------------------------------------------------------------
(* detect_duplicates on a batch of up to MaxBatch records *)

InitDetect ==
    /\ config = _default_config
    /\ results = EmptyResults
    /\ all_duplicates = << >>
    /\ jobs_data = << >>
    /\ duplicates = << >>
    /\ strategy = "keep_first"
    /\ jobs_to_remove = {}
    /\ cleaned_jobs = << >>
    /\ outcome = "none"
    /\ pc = "batch"
    /\ NormalizerIdle
    /\ summary = NoSummary
    /\ VectorizerUnfitted
    /\ WorkflowIdle

OnlyDetector ==
    /\ UNCHANGED <<config, duplicates, strategy, jobs_to_remove, cleaned_jobs>>
    /\ NormalizerUntouched
    /\ WorkflowUntouched

\* the caller appends a record to the batch; its id is its position
AddRecord(kind) ==
    /\ pc = "batch"
    /\ Len(jobs_data) < MaxBatch
    /\ jobs_data' = Append(jobs_data, [id |-> Len(jobs_data) + 1] @@ kind)
    /\ UNCHANGED <<results, all_duplicates, summary, outcome, pc>>
    /\ VectorizerUntouched
    /\ OnlyDetector

\* how detect_duplicates ends: nothing catches the KeyError of
\* _preprocess_data
DetectOutcome(jobs) == IF PreprocessRaises(jobs) THEN "KeyError" ELSE "returned"

\* one call of detect_duplicates on the batch: it raises, or it runs the
\* four strategies, consolidates and summarizes
DetectDuplicates ==
    /\ pc = "batch"
    /\ outcome' = DetectOutcome(jobs_data)
    /\ IF DetectOutcome(jobs_data) = "returned"
       THEN \E rows \in {_preprocess_data(jobs_data)} :
            \E terms \in {RowTerms(rows)} :
            \E fuzzy \in {_find_fuzzy_duplicates(rows, Columns(jobs_data), config)} :
            \E cross_source \in {_find_cross_source_duplicates(jobs_data, rows, config)} :
            \E order \in GroupOrders(SharedFingerprints(rows)) :
            \E similarities \in SimilarityMatrices(terms) :
            \E found \in
                {[exact_duplicates |-> _find_exact_duplicates(rows, order),
                  fuzzy_duplicates |-> fuzzy,
                  semantic_duplicates |->
                      _find_semantic_duplicates(rows, terms, similarities, config),
                  cross_source_duplicates |-> cross_source]} :
            \E consolidated \in {_consolidate_duplicates(found)} :
                /\ results' = found
                /\ all_duplicates' = consolidated
                /\ summary' = _generate_summary(rows, consolidated)
                /\ vectorizer' = fit_transform(vectorizer, rows, terms, config)
       ELSE UNCHANGED <<results, all_duplicates, summary, vectorizer>>
    /\ pc' = "done"
    /\ UNCHANGED jobs_data
    /\ OnlyDetector

NextDetect ==
    \/ \E kind \in RecordKinds : AddRecord(kind)
    \/ DetectDuplicates

SpecDetect == InitDetect /\ [][NextDetect]_vars

----------------------------------------------------------------------------
(* AnalyticsWorkflow._handle_duplicates on a batch of up to MaxHandled      *)
(* records: detect_duplicates, then remove_duplicates on the consolidated   *)
(* matches with the policy of the WorkflowConfig.  The detector is the      *)
(* DuplicateDetector() the workflow builds, with the default configuration. *)

\* the raw match lists of detect_duplicates, for one order of the
\* fingerprint groups and one similarity matrix
StrategyResults(rows, terms, order, similarities, fuzzy, cross_source, cfg) ==
    [exact_duplicates |-> _find_exact_duplicates(rows, order),
     fuzzy_duplicates |-> fuzzy,
     semantic_duplicates |-> _find_semantic_duplicates(rows, terms, similarities, cfg),
     cross_source_duplicates |-> cross_source]

\* the workflows that can be configured: either policy that the resolver
\* implements, the default min_duplicate_confidence or a stricter one
WorkflowConfigs ==
    {[WorkflowConfig EXCEPT !.duplicate_strategy = policy,
                            !.min_duplicate_confidence = least] :
        policy \in {"keep_first", "keep_best_source"},
        least \in {70 * Hundredth, 90 * Hundredth}}

InitHandle ==
    /\ config = _default_config
    /\ results = EmptyResults
    /\ all_duplicates = << >>
    /\ jobs_data = << >>
    /\ duplicates = << >>
    /\ strategy = "keep_first"
    /\ jobs_to_remove = {}
    /\ cleaned_jobs = << >>
    /\ outcome = "none"
    /\ pc = "jobs"
    /\ NormalizerIdle
    /\ summary = NoSummary
    /\ VectorizerUnfitted
    /\ workflow \in WorkflowConfigs

\* the records of a batch all have an id, their position, or none has one
HandledRecord(jobs, kind, with_id) ==
    IF with_id THEN [id |-> Len(jobs) + 1] @@ kind ELSE kind

\* one more record in the batch that will be handed to the workflow
HandRecord(kind, with_id) ==
    /\ pc = "jobs"
    /\ Len(jobs_data) < MaxHandled
    /\ jobs_data # << >> => with_id = ("id" \in DOMAIN jobs_data[1])
    /\ jobs_data' = Append(jobs_data, HandledRecord(jobs_data, kind, with_id))
    /\ UNCHANGED <<config, results, all_duplicates, summary, duplicates, strategy,
                   jobs_to_remove, cleaned_jobs, outcome, pc>>
    /\ NormalizerUntouched
    /\ VectorizerUntouched
    /\ WorkflowUntouched

\* what _handle_duplicates leaves behind when both calls have ended
Handled(rows, found, consolidated, removal) ==
    /\ results' = found
    /\ all_duplicates' = consolidated
    /\ summary' = _generate_summary(rows, consolidated)
    /\ duplicates' = consolidated
    /\ strategy' = workflow.duplicate_strategy
    /\ jobs_to_remove' = removal.jobs_to_remove
    /\ cleaned_jobs' = removal.cleaned_jobs
    /\ outcome' = removal.outcome

\* remove_duplicates(jobs_data, duplicate_analysis['consolidated_duplicates'],
\* strategy=self.config.duplicate_strategy)
HandleConsolidated(jobs, rows, found, consolidated) ==
    \E removal \in {remove_duplicates(jobs, consolidated,
                                      workflow.duplicate_strategy, config)} :
        Handled(rows, found, consolidated, removal)

\* detect_duplicates has built its raw lists
HandleFound(jobs, rows, found) ==
    \E consolidated \in {_consolidate_duplicates(found)} :
        HandleConsolidated(jobs, rows, found, consolidated)

\* detect_duplicates has preprocessed the batch
HandleRows(jobs, rows, terms) ==
    /\ \E fuzzy \in {_find_fuzzy_duplicates(rows, Columns(jobs), config)} :
       \E cross_source \in {_find_cross_source_duplicates(jobs, rows, config)} :
       \E order \in GroupOrders(SharedFingerprints(rows)) :
       \E similarities \in SimilarityMatrices(terms) :
       \E found \in {StrategyResults(rows, terms, order, similarities,
                                      fuzzy, cross_source, config)} :
           HandleFound(jobs, rows, found)
    /\ vectorizer' = fit_transform(vectorizer, rows, terms, config)

\* one call of _handle_duplicates
HandleDuplicates ==
    /\ pc = "jobs"
    /\ IF PreprocessRaises(jobs_data)
       THEN /\ outcome' = "KeyError"
            /\ UNCHANGED <<results, all_duplicates, summary, duplicates, strategy,
                           jobs_to_remove, cleaned_jobs, vectorizer>>
       ELSE \E rows \in {_preprocess_data(jobs_data)} :
                HandleRows(jobs_data, rows, RowTerms(rows))
    /\ pc' = "done"
    /\ UNCHANGED <<config, jobs_data>>
    /\ NormalizerUntouched
    /\ WorkflowUntouched

NextHandle ==
    \/ \E kind \in HandledKinds, with_id \in BOOLEAN : HandRecord(kind, with_id)
    \/ HandleDuplicates

SpecHandle == InitHandle /\ [][NextHandle]_vars

----------------------------------------------------------------------------
(* One DuplicateDetector over its life: built with a configuration, then   *)
(* called any number of times on batches of up to MaxCalled records.  The  *)
(* caller puts a batch together, calls detect_duplicates on it and         *)
(* remove_duplicates with the matches returned, as often as it likes, and  *)
(* goes on to another batch.  The vectorizer is the one object of the      *)
(* detector that a call writes to.                                         *)

\* number of records in a batch of one call
MaxCalled == 2

\* the records of these batches: one listing, and another as two sites
\* carry it
CalledKinds ==
    { [title |-> t_aba, company |-> t_ab, location |-> t_k_n, source |-> "merojob"],
      [title |-> t_bca, company |-> t_ab, location |-> t_k_n, source |-> "jobaxle"],
      [title |-> t_bca, company |-> t_ab, location |-> t_k_n, source |-> "merojob"] }

\* the options of a configuration
ConfigKeys == DOMAIN _default_config

\* a dictionary with the options named, at their default values
Options(keys) == [k \in keys |-> _default_config[k]]

\* the config argument of the constructor: none, or a dictionary with
\* fuzzy_threshold alone, with all options but min_confidence, or with all
\* but similarity_thresholds
GivenConfigs ==
    { Options({}),
      [fuzzy_threshold |-> 85 * Hundredth],
      Options(ConfigKeys \ {"min_confidence"}),
      Options(ConfigKeys \ {"high_similarity", "medium_similarity"}) }

\* self.config = config or self._default_config(): None and {} are false
ConfigOrDefault(given) == IF DOMAIN given = {} THEN _default_config ELSE given

InitCalls ==
    /\ config \in {ConfigOrDefault(given) : given \in GivenConfigs}
    /\ results = EmptyResults
    /\ all_duplicates = << >>
    /\ jobs_data = << >>
    /\ duplicates = << >>
    /\ strategy = "keep_first"
    /\ jobs_to_remove = {}
    /\ cleaned_jobs = << >>
    /\ outcome = "none"
    /\ pc = "batch"
    /\ NormalizerIdle
    /\ summary = NoSummary
    /\ VectorizerUnfitted
    /\ WorkflowIdle

\* the caller adds a record to the batch of its next calls
PutRecord(kind) ==
    /\ pc = "batch"
    /\ Len(jobs_data) < MaxCalled
    /\ jobs_data' = Append(jobs_data, [id |-> Len(jobs_data) + 1] @@ kind)
    /\ UNCHANGED <<config, results, all_duplicates, summary, duplicates, strategy,
                   jobs_to_remove, cleaned_jobs, outcome, pc>>
    /\ NormalizerUntouched
    /\ VectorizerUntouched
    /\ WorkflowUntouched

\* the caller drops the batch and what the calls on it returned, and starts
\* another batch; the detector is left as the calls left it
NewBatch ==
    /\ pc # "batch"
    /\ jobs_data' = << >>
    /\ results' = EmptyResults
    /\ all_duplicates' = << >>
    /\ summary' = NoSummary
    /\ duplicates' = << >>
    /\ strategy' = "keep_first"
    /\ jobs_to_remove' = {}
    /\ cleaned_jobs' = << >>
    /\ outcome' = "none"
    /\ pc' = "batch"
    /\ UNCHANGED config
    /\ NormalizerUntouched
    /\ VectorizerUntouched
    /\ WorkflowUntouched

\* detect_duplicates ended by a KeyError: nothing is returned
DetectRaised(vocabulary) ==
    [outcome |-> "KeyError", results |-> EmptyResults, all_duplicates |-> << >>,
     summary |-> NoSummary, vectorizer |-> vocabulary]

\* detect_duplicates returned
DetectReturned(rows, found, consolidated, vocabulary) ==
    [outcome |-> "returned", results |-> found, all_duplicates |-> consolidated,
     summary |-> _generate_summary(rows, consolidated), vectorizer |-> vocabulary]

\* the four strategies under a configuration that has the options they read
CalledStrategies(jobs, rows, terms, order, similarities, cfg) ==
    [exact_duplicates |-> _find_exact_duplicates(rows, order),
     fuzzy_duplicates |-> _find_fuzzy_duplicates(rows, Columns(jobs), cfg),
     semantic_duplicates |->
        IF "medium_similarity" \in DOMAIN cfg
        THEN _find_semantic_duplicates(rows, terms, similarities, cfg)
        ELSE << >>,
     cross_source_duplicates |-> _find_cross_source_duplicates(jobs, rows, cfg)]

\* an option that detect_duplicates reads outside a try block is not in
\* self.config, before the vectorizer is reached: fuzzy_threshold always,
\* weights when a pair of rows is scored, enable_advanced_matching always
RaisesBeforeFit(rows, cfg) ==
    \/ "fuzzy_threshold" \notin DOMAIN cfg
    \/ Len(rows) >= 2 /\ "weights" \notin DOMAIN cfg
    \/ "enable_advanced_matching" \notin DOMAIN cfg

\* the cross-source strategy reads the high_similarity threshold when it
\* scores a pair, which it does when the batch has two sources
RaisesAfterFit(jobs, cfg) ==
    /\ "high_similarity" \notin DOMAIN cfg
    /\ Len(UniqueSources(jobs, << >>)) >= 2

\* the outcomes of the call once the vectorizer is fitted
DetectFitted(jobs, rows, terms, vectors, cfg, fitted) ==
    IF RaisesAfterFit(jobs, cfg) THEN {DetectRaised(fitted)}
    ELSE { DetectReturned(rows,
              CalledStrategies(jobs, rows, terms, order, similarities, cfg),
              _consolidate_duplicates(
                  CalledStrategies(jobs, rows, terms, order, similarities, cfg)),
              fitted) :
             order \in GroupOrders(SharedFingerprints(rows)),
             similarities \in SimilarityMatrices(vectors) }

\* the outcomes of the call on preprocessed rows
DetectRows(jobs, rows, terms, cfg, vocabulary) ==
    IF RaisesBeforeFit(rows, cfg) THEN {DetectRaised(vocabulary)}
    ELSE DetectFitted(jobs, rows, terms,
                      transform(fit_transform(vocabulary, rows, terms, cfg), terms),
                      cfg, fit_transform(vocabulary, rows, terms, cfg))

\* the outcomes of detect_duplicates(jobs) on a detector with this
\* configuration whose vectorizer holds this vocabulary
DetectCall(jobs, cfg, vocabulary) ==
    IF PreprocessRaises(jobs) THEN {DetectRaised(vocabulary)}
    ELSE DetectRows(jobs, _preprocess_data(jobs), RowTerms(_preprocess_data(jobs)),
                    cfg, vocabulary)

\* one call of detect_duplicates on the batch
CallDetect ==
    /\ \E call \in DetectCall(jobs_data, config, vectorizer) :
          /\ outcome' = call.outcome
          /\ results' = call.results
          /\ all_duplicates' = call.all_duplicates
          /\ summary' = call.summary
          /\ vectorizer' = call.vectorizer
    /\ pc' = "detected"
    /\ UNCHANGED <<config, jobs_data, duplicates, strategy, jobs_to_remove,
                   cleaned_jobs>>
    /\ NormalizerUntouched
    /\ WorkflowUntouched

\* remove_duplicates(jobs, dups, strat): self.config['min_confidence'] is
\* read for every match
RemoveCall(jobs, dups, strat, cfg) ==
    IF dups # << >> /\ "min_confidence" \notin DOMAIN cfg
    THEN [outcome |-> "KeyError", jobs_to_remove |-> {}, cleaned_jobs |-> << >>]
    ELSE remove_duplicates(jobs, dups, strat, cfg)

\* one call of remove_duplicates on the batch, with the consolidated matches
\* that the last detect_duplicates returned
CallRemove(strat) ==
    /\ pc = "removed" \/ (pc = "detected" /\ outcome = "returned")
    /\ duplicates' = all_duplicates
    /\ strategy' = strat
    /\ outcome' = RemoveCall(jobs_data, all_duplicates, strat, config).outcome
    /\ jobs_to_remove' = RemoveCall(jobs_data, all_duplicates, strat, config).jobs_to_remove
    /\ cleaned_jobs' = RemoveCall(jobs_data, all_duplicates, strat, config).cleaned_jobs
    /\ pc' = "removed"
    /\ UNCHANGED <<config, jobs_data, results, all_duplicates, summary>>
    /\ NormalizerUntouched
    /\ VectorizerUntouched
    /\ WorkflowUntouched

NextCalls ==
    \/ \E kind \in CalledKinds : PutRecord(kind)
    \/ NewBatch
    \/ CallDetect
    \/ \E strat \in {"keep_first", "keep_best_source"} : CallRemove(strat)

SpecCalls == InitCalls /\ [][NextCalls]_vars

----------------------------------------------------------------------------
(* Properties of detect_duplicates *)

\* the rows of the batch, and the entries of a match list for two of them
Rows == _preprocess_data(jobs_data)
EntriesFor(matches, i, j) == {k \in 1..Len(matches) : PairSet(matches[k]) = {i, j}}
BatchPairs == {p \in (1..Len(jobs_data)) \X (1..Len(jobs_data)) : p[1] < p[2]}

\* two records have identical title, company and location
SameListing(job1, job2) ==
    /\ Field(job1, "title") = Field(job2, "title")
    /\ Field(job1, "company") = Field(job2, "company")
    /\ Field(job1, "location") = Field(job2, "location")

\* C11: the exact strategy reports exactly the pairs of records that share a
\* fingerprint: every two records of a fingerprint group appear as a pair
\* exactly once, with reasons identical_fingerprint, no two records with
\* different fingerprints appear as a pair, and two records with identical
\* title, company and location yield exactly one exact pair.
C11_ExactPairsOfFingerprintGroups ==
    Returned =>
        /\ \A p \in BatchPairs :
              Cardinality(EntriesFor(results.exact_duplicates, p[1], p[2]))
                  = IF Rows[p[1]].fingerprint = Rows[p[2]].fingerprint THEN 1 ELSE 0
        /\ \A p \in BatchPairs :
              SameListing(jobs_data[p[1]], jobs_data[p[2]])
                  => Cardinality(EntriesFor(results.exact_duplicates, p[1], p[2])) = 1
        /\ \A k \in 1..Len(results.exact_duplicates) :
              /\ results.exact_duplicates[k].match_type = "exact"
              /\ results.exact_duplicates[k].reasons = <<"identical_fingerprint">>
              /\ results.exact_duplicates[k].job1_id # results.exact_duplicates[k].job2_id

\* a group of three records, reported as three pairs, next to none for a
\* batch of which no two share a fingerprint
C11_Witness ==
    /\ Returned
    /\ Len(jobs_data) = 3
    /\ Len(results.exact_duplicates) = 3
    /\ \A p \in BatchPairs : Rows[p[1]].fingerprint = Rows[p[2]].fingerprint
    /\ Field(jobs_data[1], "title") # Field(jobs_data[2], "title")


\* every match of the four raw lists and of the consolidated list
AllMatches ==
    {Raw[k] : k \in 1..Len(Raw)} \cup {all_duplicates[k] : k \in 1..Len(all_duplicates)}

\* C12: in every raw and consolidated match list, a match of type exact has
\* confidence 1.0 and similarity_score 1.0, and a match of any other type
\* has a confidence strictly below 1.0, at least 0, and not above its
\* similarity_score.
C12_ConfidenceCalibrated ==
    Returned =>
        \A m \in AllMatches :
            IF m.match_type = "exact"
            THEN m.confidence = Unit /\ m.similarity_score = Unit
            ELSE /\ m.match_type \in {"fuzzy", "semantic", "cross_source"}
                 /\ 0 <= m.confidence
                 /\ m.confidence < Unit
                 /\ m.confidence <= m.similarity_score

\* one run in which all four strategies report, the other three with a
\* similarity_score of 1.0
C12_Witness ==
    /\ Returned
    /\ results.exact_duplicates # << >>
    /\ \E k \in 1..Len(results.fuzzy_duplicates) :
          results.fuzzy_duplicates[k].similarity_score = Unit
    /\ \E k \in 1..Len(results.semantic_duplicates) :
          results.semantic_duplicates[k].similarity_score = Unit
    /\ \E k \in 1..Len(results.cross_source_duplicates) :
          results.cross_source_duplicates[k].similarity_score = Unit
    /\ \E m \in AllMatches : m.match_type # "exact" /\ m.confidence < m.similarity_score


\* C13: detect_duplicates on an empty record list returns a result whose
\* summary has duplicate_pairs 0, total_jobs 0 and duplicate_rate 0, and
\* raises nothing.
C13_EmptyBatchReturns ==
    (pc = "done" /\ jobs_data = << >> /\ outcome # "none") =>
        /\ outcome = "returned"
        /\ summary.duplicate_pairs = 0
        /\ summary.total_jobs = 0
        /\ summary.duplicate_rate = 0

\* fields whose absence makes a record malformed
RecordFields == {"title", "company", "location", "description", "source"}

\* some field is missing from some record of the batch
Malformed(jobs) == \E i \in 1..Len(jobs) : ~(RecordFields \subseteq DOMAIN jobs[i])

\* C14: detect_duplicates never raises on malformed records: whatever field
\* is missing in some or in all records of a batch, the call completes.
C14_MalformedNeverRaises ==
    (pc = "done" /\ jobs_data # << >> /\ Malformed(jobs_data)) => outcome = "returned"

\* no record has any title or description text
NoText(jobs) ==
    \A i \in 1..Len(jobs) :
        Field(jobs[i], "title") = << >> /\ Field(jobs[i], "description") = << >>

\* C15: when no record has any title or description text, the semantic
\* strategy returns an empty match list and raises nothing, and the exact,
\* fuzzy and cross-source results of the same run are still produced.
C15_SemanticFailsSoft ==
    (pc = "done" /\ jobs_data # << >> /\ NoText(jobs_data)) =>
        /\ outcome = "returned"
        /\ results.semantic_duplicates = << >>
        /\ \A p \in BatchPairs :
              Rows[p[1]].fingerprint = Rows[p[2]].fingerprint
                  => EntriesFor(results.exact_duplicates, p[1], p[2]) # {}


\* the weighted score of two rows over title 0.4, company 0.3, location
\* 0.15 and description 0.1, of which the last two count when the batch
\* has the column
ExpectedFuzzyScore(job1, job2, columns) ==
    LET location == IF "location" \in columns THEN 15 ELSE 0
        description == IF "description" \in columns THEN 10 ELSE 0
        total == 40 + 30 + location + description
    IN  Term(40, total, ratios[job1.title_clean, job2.title_clean])
        + Term(30, total, ratios[job1.company_normalized, job2.company_normalized])
        + Term(location, total, ratios[job1.location_clean, job2.location_clean])
        + Term(description, total, ratios[job1.description_clean, job2.description_clean])

\* C16: the fuzzy strategy compares every unordered pair of records exactly
\* once and emits a match for a pair if and only if its weighted score is at
\* least the configured fuzzy threshold (0.8 by default); each emitted match
\* has confidence min(score, 0.95).
C16_FuzzyPairs ==
    Returned =>
        /\ \A p \in BatchPairs :
              LET score == ExpectedFuzzyScore(Rows[p[1]], Rows[p[2]], Columns(jobs_data))
                  entries == EntriesFor(results.fuzzy_duplicates, p[1], p[2])
              IN  /\ Cardinality(entries) = IF score >= config.fuzzy_threshold THEN 1 ELSE 0
                  /\ \A k \in entries :
                        /\ results.fuzzy_duplicates[k].job1_id = p[1]
                        /\ results.fuzzy_duplicates[k].job2_id = p[2]
                        /\ results.fuzzy_duplicates[k].match_type = "fuzzy"
                        /\ results.fuzzy_duplicates[k].similarity_score = score
                        /\ results.fuzzy_duplicates[k].confidence
                               = IF score < 95 * Hundredth THEN score ELSE 95 * Hundredth
        /\ \A k \in 1..Len(results.fuzzy_duplicates) :
              results.fuzzy_duplicates[k].job1_id < results.fuzzy_duplicates[k].job2_id

\* three records of which one pair scores above the cap, one between the
\* threshold and the cap, and one below the threshold
C16_Witness ==
    /\ Returned
    /\ Len(jobs_data) = 3
    /\ Len(results.fuzzy_duplicates) = 2
    /\ \E k \in 1..Len(results.fuzzy_duplicates) :
          /\ results.fuzzy_duplicates[k].similarity_score > 95 * Hundredth
          /\ results.fuzzy_duplicates[k].confidence = 95 * Hundredth
    /\ \E k \in 1..Len(results.fuzzy_duplicates) :
          /\ results.fuzzy_duplicates[k].similarity_score < 95 * Hundredth
          /\ results.fuzzy_duplicates[k].confidence
                 = results.fuzzy_duplicates[k].similarity_score


\* the record at i has a source, and it appears in the batch before every
\* record of the source of the record at j
SourceFirst(jobs, i, j) ==
    LET first(s) == CHOOSE k \in 1..Len(jobs) :
                        /\ "source" \in DOMAIN jobs[k] /\ jobs[k].source = s
                        /\ \A l \in 1..(k - 1) :
                              "source" \in DOMAIN jobs[l] => jobs[l].source # s
    IN  first(jobs[i].source) < first(jobs[j].source)

\* the ordered pairs of records that have different sources, the record of
\* the source met first in the batch coming first
CrossSourcePairs(jobs) ==
    {p \in (1..Len(jobs)) \X (1..Len(jobs)) :
        /\ "source" \in DOMAIN jobs[p[1]]
        /\ "source" \in DOMAIN jobs[p[2]]
        /\ jobs[p[1]].source # jobs[p[2]].source
        /\ SourceFirst(jobs, p[1], p[2])}

\* the score of two rows over title 0.6 and company 0.4
ExpectedCrossSourceScore(job1, job2) ==
    Term(60, 100, ratios[job1.title_clean, job2.title_clean])
        + Term(40, 100, ratios[job1.company_normalized, job2.company_normalized])

\* C17: every match of type cross_source joins two records whose sources
\* differ; every pair of records with different sources is scored exactly
\* once with the title 0.6 / company 0.4 variant, a match is emitted iff
\* that score is at least the high threshold (0.9 by default), its
\* confidence is the score times 0.9, and its reasons name both sources.
C17_CrossSourcePairs ==
    Returned =>
        /\ \A k \in 1..Len(results.cross_source_duplicates) :
              LET m == results.cross_source_duplicates[k]
              IN  /\ m.match_type = "cross_source"
                  /\ <<m.job1_id, m.job2_id>> \in CrossSourcePairs(jobs_data)
        /\ \A p \in CrossSourcePairs(jobs_data) :
              LET score == ExpectedCrossSourceScore(Rows[p[1]], Rows[p[2]])
                  entries == EntriesFor(results.cross_source_duplicates, p[1], p[2])
              IN  /\ Cardinality(entries) = IF score >= config.high_similarity THEN 1 ELSE 0
                  /\ \A k \in entries :
                        LET m == results.cross_source_duplicates[k]
                        IN  /\ m.job1_id = p[1]
                            /\ m.job2_id = p[2]
                            /\ m.similarity_score = score
                            /\ m.similarity_score - m.confidence = score \div 10
                            /\ m.reasons =
                                   <<cross_source_reason[jobs_data[p[1]].source]
                                                        [jobs_data[p[2]].source]>>

\* three records, the second of another source than the other two: of the
\* two pairs of different sources one scores below the threshold and the
\* other is reported, the record of the source met first coming first
C17_Witness ==
    /\ Returned
    /\ Len(jobs_data) = 3
    /\ Len(results.cross_source_duplicates) = 1
    /\ results.cross_source_duplicates[1].job1_id = 3
    /\ results.cross_source_duplicates[1].job2_id = 2
    /\ <<1, 2>> \in CrossSourcePairs(jobs_data)


\* C18: two records whose normalized title, normalized company and
\* normalized location are equal have equal fingerprints, so that the exact
\* strategy reports them as a pair.
C18_FingerprintOfNormalizedFields ==
    Returned =>
        \A p \in BatchPairs :
            (/\ Rows[p[1]].title_normalized = Rows[p[2]].title_normalized
             /\ Rows[p[1]].company_normalized = Rows[p[2]].company_normalized
             /\ Rows[p[1]].location_normalized = Rows[p[2]].location_normalized)
                => /\ Rows[p[1]].fingerprint = Rows[p[2]].fingerprint
                   /\ EntriesFor(results.exact_duplicates, p[1], p[2]) # {}

\* the fuzzy and the cross-source score of the rows at i and j, in that order
FuzzyScoreOf(i, j) ==
    _calculate_fuzzy_similarity(Rows[i], Rows[j], Columns(jobs_data), config)
CrossSourceScoreOf(i, j) == _calculate_cross_source_similarity(Rows[i], Rows[j])

\* C20: the pairwise scores are symmetric: for all records A and B the fuzzy
\* score of (A, B) equals that of (B, A) and the cross-source score of (A, B)
\* equals that of (B, A), so that whether a pair passes the fuzzy or the
\* cross-source threshold does not depend on the order of the two records.
C20_ScoresSymmetric ==
    Returned =>
        \A p \in BatchPairs :
            /\ FuzzyScoreOf(p[1], p[2]) = FuzzyScoreOf(p[2], p[1])
            /\ CrossSourceScoreOf(p[1], p[2]) = CrossSourceScoreOf(p[2], p[1])
            /\ (FuzzyScoreOf(p[1], p[2]) >= config.fuzzy_threshold)
                   = (FuzzyScoreOf(p[2], p[1]) >= config.fuzzy_threshold)


----------------------------------------------------------------------------
(* The weighted mean the fuzzy score is said to be *)

RECURSIVE GCD(_, _)
GCD(a, b) == IF b = 0 THEN a ELSE GCD(b, a % b)

\* a fraction <<numerator, denominator>> in lowest terms
Reduced(q) ==
    IF q[1] = 0 THEN <<0, 1>> ELSE <<q[1] \div GCD(q[1], q[2]), q[2] \div GCD(q[1], q[2])>>

PlusFraction(p, q) == Reduced(<<p[1] * q[2] + q[1] * p[2], p[2] * q[2]>>)

\* the fields a record can be compared on that both records hold a text for
ScoredFields == <<"title", "company", "location", "description">>
PresentOnBoth(job1, job2) ==
    {f \in {"title", "company", "location", "description"} :
        Field(job1, f) # << >> /\ Field(job2, f) # << >>}

\* the sum over the given fields of weight * similarity, as a fraction
RECURSIVE WeightedSum(_, _, _, _)
WeightedSum(fields, present, i, j) ==
    IF fields = << >> THEN <<0, 1>>
    ELSE LET f == Head(fields)
             r == ratio(ComparedText(Rows[i], f), ComparedText(Rows[j], f))
             rest == WeightedSum(Tail(fields), present, i, j)
         IN  IF f \in present
             THEN PlusFraction(<<config.weights[f] * r[1], r[2]>>, rest)
             ELSE rest

\* the weights of the given fields
RECURSIVE WeightOf(_, _)
WeightOf(fields, present) ==
    IF fields = << >> THEN 0
    ELSE (IF Head(fields) \in present THEN config.weights[Head(fields)] ELSE 0)
             + WeightOf(Tail(fields), present)

\* the weighted mean of the similarities of the fields present on both of
\* the records at i and j, as a fraction in lowest terms
MeanOfPresent(i, j) ==
    LET present == PresentOnBoth(jobs_data[i], jobs_data[j])
        sum == WeightedSum(ScoredFields, present, i, j)
    IN  Reduced(<<sum[1], sum[2] * WeightOf(ScoredFields, present)>>)

\* a score, in parts of Unit, is the given fraction
IsFraction(score, q) == Unit % q[2] = 0 /\ score = (Unit \div q[2]) * q[1]

\* C21: the fuzzy score of two records is the weighted mean of the
\* similarities of the fields that neither record lacks or holds empty, with
\* the default weights title 0.40, company 0.30, location 0.15, description
\* 0.10: a field absent or empty on either record is left out of the
\* weighted sum and of the weight total.
C21_FieldsAbsentLeftOut ==
    Returned =>
        \A p \in BatchPairs :
            PresentOnBoth(jobs_data[p[1]], jobs_data[p[2]]) # {}
                => IsFraction(FuzzyScoreOf(p[1], p[2]), MeanOfPresent(p[1], p[2]))


----------------------------------------------------------------------------
(* Switching strategies off *)

\* the configurations that differ from the detector's in the options that
\* switch something on or off: 'enable_advanced_matching' is the only one
\* that the code reads
SwitchedConfigs == {[config EXCEPT !.enable_advanced_matching = on] : on \in BOOLEAN}

\* the raw match lists of the three strategies that read the configuration,
\* for the batch at hand and one similarity matrix
ConfiguredLists(cfg, similarities) ==
    [fuzzy |-> _find_fuzzy_duplicates(Rows, Columns(jobs_data), cfg),
     semantic |-> _find_semantic_duplicates(Rows, RowTerms(Rows), similarities, cfg),
     cross_source |-> _find_cross_source_duplicates(jobs_data, Rows, cfg)]

\* under cfg the strategy is off and the other two report what they report
\* under the detector's configuration
SwitchesOff(cfg, name) ==
    \A similarities \in SimilarityMatrices(RowTerms(Rows)) :
        /\ ConfiguredLists(cfg, similarities)[name] = << >>
        /\ \A other \in {"fuzzy", "semantic", "cross_source"} \ {name} :
              ConfiguredLists(cfg, similarities)[other]
                  = ConfiguredLists(config, similarities)[other]

\* C22: each of the fuzzy, semantic and cross-source strategies can be
\* switched off by configuration: some setting of the on/off options makes
\* it return no matches and leaves the raw lists of the other strategies as
\* they are; the exact strategy reports the same under every setting.
C22_StrategiesSwitchOff ==
    Returned =>
        /\ \A name \in {"fuzzy", "semantic", "cross_source"} :
              \E cfg \in SwitchedConfigs : SwitchesOff(cfg, name)
        /\ \A order \in GroupOrders(SharedFingerprints(Rows)) :
              Len(_find_exact_duplicates(Rows, order)) = Len(results.exact_duplicates)


\* C27: in every match of any of the four strategies, raw or consolidated,
\* job1_id is the id of the record that comes earlier in the batch and
\* job2_id that of the later one (the id of a record is its position).
C27_EarlierRecordFirst ==
    Returned => \A m \in AllMatches : m.job1_id < m.job2_id


\* C28: every pair reported by the exact strategy is in the consolidated
\* list as a match of type exact with confidence 1.0: no fuzzy, semantic or
\* cross-source match of the same pair has replaced it.
C28_ExactNeverReplaced ==
    Returned =>
        \A k \in 1..Len(results.exact_duplicates) :
            LET exact == results.exact_duplicates[k]
                entries == {n \in 1..Len(all_duplicates) :
                               pair_key(all_duplicates[n]) = pair_key(exact)}
            IN  /\ entries # {}
                /\ \A n \in entries :
                      /\ all_duplicates[n].match_type = "exact"
                      /\ all_duplicates[n].confidence = ExactConfidence

\* a pair reported by the exact strategy and, the other way round, by the
\* cross-source strategy, and by the fuzzy strategy
C28_Witness ==
    /\ Returned
    /\ \E k \in 1..Len(results.exact_duplicates) :
          /\ \E c \in 1..Len(results.cross_source_duplicates) :
                /\ results.cross_source_duplicates[c].job1_id
                       = results.exact_duplicates[k].job2_id
                /\ results.cross_source_duplicates[c].job2_id
                       = results.exact_duplicates[k].job1_id
          /\ \E f \in 1..Len(results.fuzzy_duplicates) :
                pair_key(results.fuzzy_duplicates[f]) = pair_key(results.exact_duplicates[k])


----------------------------------------------------------------------------
(* Records without an id *)

\* no record of the batch has an id
IdLess(jobs) == \A i \in 1..Len(jobs) : "id" \notin DOMAIN jobs[i]

\* the ordinals of the records that the policy discards, when a match names
\* its records by their ordinal in the batch (the first record is 0)
OrdinalsDiscarded(jobs, dups, strat, cfg) ==
    { IF strat = "keep_first" THEN KeepFirstDiscard(dups[k])
      ELSE BestSourceDiscard(jobs[dups[k].job1_id + 1],
                             jobs[dups[k].job2_id + 1], dups[k]) :
        k \in {k \in 1..Len(dups) : ActedOn(dups[k], cfg)} }

\* the records of the batch, in order, whose ordinal is not in the set
WithoutOrdinals(jobs, ordinals) ==
    LET RECURSIVE From(_)
        From(i) == IF i > Len(jobs) THEN << >>
                   ELSE IF (i - 1) \in ordinals THEN From(i + 1)
                   ELSE <<jobs[i]>> \o From(i + 1)
    IN From(1)

\* C24: for a batch of records without ids, detect_duplicates followed by
\* remove_duplicates on its consolidated matches raises nothing and returns
\* the batch without the discarded record of every acted-on match, the
\* matches naming each record by its ordinal position in the batch.
C24_IdLessBatchResolved ==
    (pc = "done" /\ jobs_data # << >> /\ IdLess(jobs_data))
        => /\ outcome = "returned"
           /\ \A k \in 1..Len(duplicates) :
                  /\ duplicates[k].job1_id \in 0..(Len(jobs_data) - 1)
                  /\ duplicates[k].job2_id \in 0..(Len(jobs_data) - 1)
           /\ cleaned_jobs =
                  WithoutOrdinals(jobs_data,
                      OrdinalsDiscarded(jobs_data, duplicates, strategy, config))


----------------------------------------------------------------------------
(* Clusters of duplicates *)

\* the ids that an acted-on match links to an id of the set
LinkedTo(ids, dups, cfg) ==
    UNION { {dups[k].job1_id, dups[k].job2_id} :
              k \in {k \in 1..Len(dups) :
                        /\ ActedOn(dups[k], cfg)
                        /\ {dups[k].job1_id, dups[k].job2_id} \cap ids # {}} }

\* the group of records connected to the set through acted-on matches
RECURSIVE Cluster(_, _, _)
Cluster(ids, dups, cfg) ==
    IF LinkedTo(ids, dups, cfg) \subseteq ids THEN ids
    ELSE Cluster(ids \cup LinkedTo(ids, dups, cfg), dups, cfg)

\* the ids of the records of a list
IdsOf(jobs) == {IdStr(jobs[i]) : i \in 1..Len(jobs)}

\* C26: after remove_duplicates over the consolidated matches of a batch of
\* records with ids, every group of records connected through acted-on
\* matches has a record in the cleaned list.
C26_ClusterKeepsARecord ==
    (pc = "done" /\ outcome = "returned" /\ ~IdLess(jobs_data))
        => \A k \in 1..Len(duplicates) :
              ActedOn(duplicates[k], config)
                  => Cluster({duplicates[k].job1_id}, duplicates, config)
                         \cap IdsOf(cleaned_jobs) # {}


----------------------------------------------------------------------------
(* The summary of a run *)

\* C29: in the summary of a detect_duplicates run that returned,
\* estimated_unique_jobs lies between 0 and total_jobs.
C29_EstimateWithinBatch ==
    (pc = "done" /\ outcome # "KeyError")
        => /\ summary.total_jobs = Len(jobs_data)
           /\ summary.estimated_unique_jobs >= 0
           /\ summary.estimated_unique_jobs <= summary.total_jobs


----------------------------------------------------------------------------
(* The threshold of the workflow *)

\* the matches of the list that name the id
MatchesNaming(dups, id) ==
    {k \in 1..Len(dups) : id \in {dups[k].job1_id, dups[k].job2_id}}

\* C30: in the workflow, a record is removed only on a match whose
\* confidence is at least WorkflowConfig.min_duplicate_confidence.
C30_WorkflowThresholdApplied ==
    (pc = "done" /\ outcome = "returned")
        => \A id \in jobs_to_remove :
              \E k \in MatchesNaming(duplicates, id) :
                  duplicates[k].confidence >= workflow.min_duplicate_confidence


----------------------------------------------------------------------------
(* Options that a configuration leaves out *)

\* the configuration with the stated default for every option not set
WithDefaults(cfg) ==
    [k \in ConfigKeys |-> IF k \in DOMAIN cfg THEN cfg[k] ELSE _default_config[k]]

\* the match lists detect_duplicates can return for the batch when every
\* option has a value
ListsWithDefaults(jobs, cfg) ==
    {call.all_duplicates : call \in DetectCall(jobs, WithDefaults(cfg), NoVocabulary)}

\* C23: whatever options the configuration sets, detect_duplicates on a
\* batch with titles and companies and remove_duplicates end without a
\* KeyError, and return what they return when every option that is not set
\* has its default.
C23_OptionsOptional ==
    /\ (pc = "detected" /\ ~PreprocessRaises(jobs_data))
          => /\ outcome = "returned"
             /\ all_duplicates \in ListsWithDefaults(jobs_data, config)
    /\ pc = "removed"
          => /\ outcome # "KeyError"
             /\ cleaned_jobs =
                  remove_duplicates(jobs_data, duplicates, strategy,
                                    WithDefaults(config)).cleaned_jobs


----------------------------------------------------------------------------
(* Calls on one detector *)

\* what a detect_duplicates call hands back to its caller
Answer(call) ==
    [outcome |-> call.outcome, results |-> call.results,
     all_duplicates |-> call.all_duplicates, summary |-> call.summary]

\* what detect_duplicates can hand back for the batch on a detector that
\* was just built with the configuration
FreshAnswers(jobs, cfg) == {Answer(call) : call \in DetectCall(jobs, cfg, NoVocabulary)}

\* C25: every call on the detector leaves the record list and the
\* configuration as they are; detect_duplicates hands back what a detector
\* just built with the same configuration hands back for the same batch,
\* whatever calls came before, and remove_duplicates hands back what its
\* arguments and the configuration determine.
C25_CallsIndependent ==
    [][ pc' # "batch"
           => /\ jobs_data' = jobs_data
              /\ config' = config
              /\ pc' = "detected"
                    => [outcome |-> outcome', results |-> results',
                        all_duplicates |-> all_duplicates', summary |-> summary']
                           \in FreshAnswers(jobs_data, config)
              /\ pc' = "removed"
                    => [outcome |-> outcome', jobs_to_remove |-> jobs_to_remove',
                        cleaned_jobs |-> cleaned_jobs']
                           = RemoveCall(jobs_data, duplicates', strategy', config) ]_vars

\* detect_duplicates has returned a semantic match for a batch for which an
\* earlier call returned the same matches and remove_duplicates discarded
\* a record
C25_Witness ==
    /\ pc = "detected"
    /\ outcome = "returned"
    /\ results.semantic_duplicates # << >>
    /\ vectorizer # NoVocabulary
    /\ duplicates # << >>
    /\ duplicates = all_duplicates
    /\ jobs_to_remove # {}
    /\ Len(cleaned_jobs) < Len(jobs_data)

====
